---- MODULE Spec2Model ----
(***************************************************************************)
(* Model of the mutant generator of SABR-Lab/CodeReasoning:                *)
(*   core/mutation_applier.py   MutationApplier.generate_unique_mutants    *)
(*   parallel/worker_pool.py    WorkerPool.process_mutants_parallel and    *)
(*                              WorkerPool.process_single_mutant           *)
(*   core/coverage_runner.py    CoverageRunner.run_coverage_analysis       *)
(*   core/mutation_applier.py   MutationApplier.find_java_file_by_class,   *)
(*                              apply_mutation_to_file,                    *)
(*                              apply_multiple_mutations and               *)
(*                              create_project_copy                        *)
(*                                                                         *)
(*   core/mutation_parser.py    MutationParser.parse_mutant_line and       *)
(*                              parse_all_mutations; the file is not part  *)
(*                              of the source tree, the parser is modelled *)
(*                              from section 4.1 of the specification and  *)
(*                              from tests/test_mutation_parser.py         *)
(*   main.py                    main and MutantGenerator.process_single_bug*)
(*                                                                         *)
(* Strings that the code only compares and orders (class_name, mutator,    *)
(* original_code, mutated_code, mutant_id) are modelled by their rank in   *)
(* lexicographic order: 1 < 2 stands for "A" < "B".  A signature, the      *)
(* "|"-join of "class:line:mutator" parts, is modelled as the sequence of  *)
(* its <<class, line, mutator>> parts.                                     *)
(***************************************************************************)
EXTENDS Integers, Sequences, FiniteSets, TLC

VARIABLES
    \* ---- generate_unique_mutants: two generator instances g \in {1, 2}
    random_seed,        \* self.random_seed (both instances are built with it)
    applier_key,        \* [instance -> its self.project_id and self.bug_id]
    num_mutants,        \* argument num_mutants
    max_mutations,      \* argument max_mutations
    all_mutations,      \* [g -> argument all_mutations]
    sorted_mutations,   \* [g -> local sorted_mutations]
    used_combinations,  \* [g -> local used_combinations]
    unique_mutants,     \* [g -> local unique_mutants, the returned list]
    mutant_num,         \* [g -> loop variable mutant_num]
    gpc,                \* [g -> "idle" | "loop" | "returned" | "raised"]
    calls,              \* [g -> number of calls started on the instance]
    global_random,      \* seed of the process-global random module state
    \* ---- WorkerPool.process_mutants_parallel and its tasks
    max_workers,        \* self.max_workers
    mutants,            \* argument mutants: the combinations to run
    ppc,                \* "start" | "collect" | "returned"
    task,               \* [index into mutants -> state of process_single_mutant]
    workspace,          \* [index -> "absent" | "present"]: the task's mutant_dir
    successful_mutants, \* local successful_mutants
    failed_mutants,     \* local failed_mutants
    collected,          \* futures as_completed has yielded so far
    \* ---- process_mutants_parallel lines 202-221 and the workspaces, two runs
    valid_mutants,      \* [run -> local valid_mutants]
    worker_args,        \* [run -> local worker_args]
    apc,                \* [run -> "build" | "exec" | "returned"]
    wtask,              \* [run -> [index -> the task started from worker_args[index]]]
    tree,               \* [run -> [mutant_dir -> tasks using the directory tree]]
    \* ---- one task in detail: process_single_mutant lines 57-128 and its patches
    combination,        \* mutant_info['mutations']
    source_files,       \* [class_name -> lines of its file in the workspace]
    work_dir_files,     \* [class_name -> lines of its file in the clean checkout]
    mutations_by_file,  \* local mutations_by_file, in insertion order
    spc,                \* "locate" | "apply" | "oracle" | "collect" | "listed"
    sret,               \* "pending" | "None" | "result_info"
    patch_calls,        \* the calls of the patcher made so far
    listed,             \* "none" | "successful_mutants" | "failed_mutants"
    \* ---- create_project_copy(original_dir, copy_dir)
    original_dir,       \* entries of the tree at original_dir
    copy_dir,           \* [exists, entries]: the tree at copy_dir, if there is one
    copy_ret,           \* "pending" | "copying" | "True" | "False" | "raised"
    copy_before,        \* [original, copy]: both trees when the call started
    \* ---- main(): the loop over the bugs and process_single_bug
    projects_to_process,\* the (project_id, bug_id) pairs of the run
    bug_index,          \* position of the loop in projects_to_process, from 1
    mpc,                \* "loop" | "setup" | "source_dirs" | "select" | "pool"
                        \* | "report" | "finished"
    bug_runs,           \* one record per call of process_single_bug
    success_count,      \* local success_count of main()
    merged,             \* the projects merge_project_results was called for
    \* ---- MutationParser.parse_all_mutations, two calls on one log file
    log_file,           \* the lines of the mutation log
    parse_pc,           \* [call -> "idle" | "reading" | "returned"]
    parse_pos,          \* [call -> number of lines read]
    parse_seen,         \* the records the parser has kept, its duplicate filter
    parse_out,          \* [call -> the list the call builds and returns]
    line_out,           \* [call -> what parse_mutant_line returned, line by line]
    \* ---- one task from the oracle to its return: the cleanup of its processes
    rpc,                \* "coverage" | "test" | "finally" | "find" | "term" | "sleep"
                        \* | "probe" | "sigkill" | "rmtree" | "return" | "returned"
    procs,              \* [pid -> "none" | "alive" | "protected" | "exited"]: the
                        \* processes whose command line references mutant_dir
    pids,               \* local pids of the running _kill_processes_for_path
    kpos,               \* position of its loop in pids, from 1
    events,             \* what the task did so far: timeouts, signals, removals
    caller              \* who called _kill_processes_for_path:
                        \* "none" | "coverage_runner" | "finally"

genVars == <<random_seed, applier_key, num_mutants, max_mutations, all_mutations,
             sorted_mutations, used_combinations, unique_mutants, mutant_num,
             gpc, calls, global_random>>

poolVars == <<max_workers, mutants, ppc, task, workspace, successful_mutants,
              failed_mutants, collected>>

argVars == <<valid_mutants, worker_args, apc, wtask, tree>>

singleVars == <<combination, source_files, work_dir_files, mutations_by_file,
                spc, sret, patch_calls, listed>>

cloneVars == <<original_dir, copy_dir, copy_ret, copy_before>>

mainVars == <<projects_to_process, bug_index, mpc, bug_runs, success_count, merged>>

parseVars == <<log_file, parse_pc, parse_pos, parse_seen, parse_out, line_out>>

reclaimVars == <<rpc, procs, pids, kpos, events, caller>>

vars == <<genVars, poolVars, argVars, singleVars, cloneVars, mainVars, parseVars,
          reclaimVars>>

\* what the actions of one part of the program leave alone
nonGenVars == <<poolVars, argVars, singleVars, cloneVars, mainVars, parseVars,
    reclaimVars>>
nonPoolVars == <<genVars, argVars, singleVars, cloneVars, mainVars, parseVars,
    reclaimVars>>
nonArgVars == <<genVars, poolVars, singleVars, cloneVars, mainVars, parseVars,
    reclaimVars>>
nonSingleVars == <<genVars, poolVars, argVars, cloneVars, mainVars, parseVars,
    reclaimVars>>
nonCloneVars == <<genVars, poolVars, argVars, singleVars, mainVars, parseVars,
    reclaimVars>>
nonMainVars == <<genVars, poolVars, argVars, singleVars, cloneVars, parseVars,
    reclaimVars>>
nonParseVars == <<genVars, poolVars, argVars, singleVars, cloneVars, mainVars,
    reclaimVars>>
nonReclaimVars == <<genVars, poolVars, argVars, singleVars, cloneVars, mainVars,
    parseVars>>

----------------------------------------------------------------------------
\* Bounds of the model

MaxRecs == 2        \* longest input record list
MaxNum == 3         \* largest num_mutants
MaxPer == 2         \* largest max_mutations
MaxCalls == 2       \* calls made on one generator instance
MaxMutants == 2     \* longest list of combinations handed to the pool
MaxWorkers == 2     \* largest max_workers
MaxBugs == 2        \* longest list of bugs handed to main()
MaxLines == 3       \* longest mutation log, in lines

\* Program constants
STRIDE == 1000      \* mutant_seed = random_seed + mutant_num * 1000
STEP == 17          \* idx = (mutant_seed + i * 17) % len
ALT_OFFSET == 9999  \* alt_seed = mutant_seed + 9999
ALT_STEP == 23      \* idx = (alt_seed + i * 23) % len
COVERAGE_TIMEOUT == 720   \* seconds, timeout of each oracle subprocess
FUTURE_TIMEOUT == 1200    \* seconds, future.result(timeout=1200)

Instances == {1, 2}
Seeds == {1, 42}

----------------------------------------------------------------------------
\* Mutation records

Rec(i, c, l, m, o, u) ==
    [mutant_id |-> i, class_name |-> c, line_number |-> l, mutator |-> m,
     original_code |-> o, mutated_code |-> u]

\* The records the inputs are drawn from.  Records 1 and 2 agree on the whole
\* sort key (class, line, mutator, original code) and differ in id and mutated
\* code; records 1 and 3 share class and line and differ in mutator.
RecordUniverse ==
    { Rec(1, 1, 1, 1, 1, 1),
      Rec(2, 1, 1, 1, 1, 2),
      Rec(3, 1, 1, 2, 1, 1),
      Rec(4, 1, 2, 1, 1, 1),
      Rec(5, 2, 1, 1, 1, 1) }

\* Lists of pairwise different records (the parser drops exact duplicates)
RecordLists ==
    { s \in UNION { [1..n -> RecordUniverse] : n \in 0..MaxRecs } :
        \A i, j \in DOMAIN s : i # j => s[i] # s[j] }

PermutationsOf(s) ==
    { [i \in DOMAIN s |-> s[p[i]]] : p \in Permutations(DOMAIN s) }

----------------------------------------------------------------------------
\* random.Random(seed).randint(1, m) of CPython (Mersenne Twister), tabulated
\* for the seeds the model reaches: RandIntTable[seed][m], m \in 1..5
\* (random_seed 1 and 42 with mutant_num 1..6, random_seed 13 with 1..3, and the
\* seeds 485, 492, 538 and 545 of self.rng with mutant_num 1..4).
RandIntTable ==
    1000 :> <<1, 2, 2, 4, 4>> @@
    1001 :> <<1, 1, 1, 1, 1>> @@
    1013 :> <<1, 2, 2, 4, 4>> @@
    1042 :> <<1, 1, 1, 2, 2>> @@
    2000 :> <<1, 2, 2, 4, 4>> @@
    2001 :> <<1, 1, 3, 1, 5>> @@
    2013 :> <<1, 2, 2, 4, 4>> @@
    2042 :> <<1, 2, 2, 3, 3>> @@
    3000 :> <<1, 1, 3, 2, 2>> @@
    3001 :> <<1, 2, 2, 3, 3>> @@
    3013 :> <<1, 2, 3, 4, 4>> @@
    3042 :> <<1, 2, 2, 4, 4>> @@
    4000 :> <<1, 2, 2, 4, 4>> @@
    4001 :> <<1, 2, 2, 4, 4>> @@
    4042 :> <<1, 1, 3, 1, 5>> @@
    5000 :> <<1, 1, 1, 2, 2>> @@
    5001 :> <<1, 2, 3, 3, 5>> @@
    5042 :> <<1, 1, 1, 2, 2>> @@
    6000 :> <<1, 1, 1, 2, 2>> @@
    6001 :> <<1, 2, 2, 3, 3>> @@
    6042 :> <<1, 1, 3, 2, 2>> @@
    10999 :> <<1, 1, 1, 2, 2>> @@
    11000 :> <<1, 1, 1, 1, 1>> @@
    11012 :> <<1, 1, 1, 2, 2>> @@
    11041 :> <<1, 2, 3, 3, 5>> @@
    11999 :> <<1, 1, 1, 2, 2>> @@
    12000 :> <<1, 1, 1, 1, 1>> @@
    12012 :> <<1, 1, 1, 2, 2>> @@
    12041 :> <<1, 2, 3, 3, 3>> @@
    12999 :> <<1, 2, 2, 4, 4>> @@
    13000 :> <<1, 1, 1, 1, 1>> @@
    13012 :> <<1, 1, 3, 2, 2>> @@
    13041 :> <<1, 2, 2, 4, 4>> @@
    13999 :> <<1, 1, 1, 1, 1>> @@
    14000 :> <<1, 1, 1, 2, 2>> @@
    14041 :> <<1, 1, 1, 1, 1>> @@
    14999 :> <<1, 2, 2, 4, 4>> @@
    15000 :> <<1, 2, 3, 4, 5>> @@
    15041 :> <<1, 1, 1, 1, 1>> @@
    15999 :> <<1, 2, 2, 3, 3>> @@
    16000 :> <<1, 1, 1, 2, 2>> @@
    16041 :> <<1, 1, 1, 2, 2>> @@
    1485 :> <<1, 2, 2, 3, 3>> @@
    1492 :> <<1, 1, 3, 2, 5>> @@
    1538 :> <<1, 2, 2, 3, 3>> @@
    1545 :> <<1, 1, 1, 2, 2>> @@
    2485 :> <<1, 1, 1, 1, 1>> @@
    2492 :> <<1, 2, 2, 4, 4>> @@
    2538 :> <<1, 2, 3, 4, 5>> @@
    2545 :> <<1, 2, 2, 4, 4>> @@
    3485 :> <<1, 1, 1, 1, 1>> @@
    3492 :> <<1, 1, 1, 2, 2>> @@
    3538 :> <<1, 1, 3, 1, 1>> @@
    3545 :> <<1, 1, 1, 1, 1>> @@
    4485 :> <<1, 2, 3, 3, 5>> @@
    4492 :> <<1, 2, 2, 3, 3>> @@
    4538 :> <<1, 1, 1, 1, 1>> @@
    4545 :> <<1, 1, 1, 1, 1>> @@
    11484 :> <<1, 1, 1, 2, 2>> @@
    11491 :> <<1, 1, 3, 1, 5>> @@
    11537 :> <<1, 2, 3, 4, 4>> @@
    11544 :> <<1, 2, 2, 3, 3>> @@
    12484 :> <<1, 2, 3, 4, 5>> @@
    12491 :> <<1, 1, 3, 1, 1>> @@
    12537 :> <<1, 1, 1, 2, 2>> @@
    12544 :> <<1, 2, 2, 3, 3>> @@
    13484 :> <<1, 1, 1, 2, 2>> @@
    13491 :> <<1, 2, 2, 3, 3>> @@
    13537 :> <<1, 2, 2, 4, 4>> @@
    13544 :> <<1, 2, 3, 3, 3>> @@
    14484 :> <<1, 1, 1, 1, 1>> @@
    14491 :> <<1, 1, 1, 1, 1>> @@
    14537 :> <<1, 1, 1, 1, 1>> @@
    14544 :> <<1, 2, 2, 4, 4>>

RandInt(seed, m) == RandIntTable[seed][m]

\* Values the process-global random state is reseeded with by other code of
\* the process (worker_pool.py calls random.seed(worker_seed))
GlobalStates == {1000, 1001}

----------------------------------------------------------------------------
\* Sorting: Python's sorted() and list.sort() are stable

\* (class_name, line_number, mutator, original_code) tuple order
FullKeyLess(a, b) ==
    \/ a.class_name < b.class_name
    \/ /\ a.class_name = b.class_name
       /\ \/ a.line_number < b.line_number
          \/ /\ a.line_number = b.line_number
             /\ \/ a.mutator < b.mutator
                \/ /\ a.mutator = b.mutator
                   /\ a.original_code < b.original_code

\* (class_name, line_number) tuple order
CanonKeyLess(a, b) ==
    \/ a.class_name < b.class_name
    \/ /\ a.class_name = b.class_name
       /\ a.line_number < b.line_number

KeyLess(full, a, b) == IF full THEN FullKeyLess(a, b) ELSE CanonKeyLess(a, b)

\* x goes behind every element whose key is not greater than its own
RECURSIVE InsertStable(_, _, _)
InsertStable(full, x, s) ==
    IF s = <<>> THEN <<x>>
    ELSE IF KeyLess(full, x, Head(s)) THEN <<x>> \o s
    ELSE <<Head(s)>> \o InsertStable(full, x, Tail(s))

RECURSIVE StableSort(_, _)
StableSort(full, s) ==
    IF s = <<>> THEN <<>>
    ELSE InsertStable(full, s[Len(s)], StableSort(full, SubSeq(s, 1, Len(s) - 1)))

SortMutations(s) == StableSort(TRUE, s)
SortSelected(s) == StableSort(FALSE, s)

----------------------------------------------------------------------------
\* One selection attempt of the loop body

\* the seed temp_rng / alt_rng is built from
TempRngSeedGlobal(seed) == global_random
TempRngSeed(seed) == seed

NumForMutantPlusOne(seed, m) == RandInt(TempRngSeed(seed), m) + 1
NumForMutant(seed, m) == RandInt(TempRngSeed(seed), m)

\* selected.append(sorted_mutations[idx]) for i in range(count); 1-based here
SelectIndices(sorted, seed, step, count) ==
    [i \in 1..count |-> sorted[((seed + (i - 1) * step) % Len(sorted)) + 1]]

Signature(selected) ==
    [i \in DOMAIN selected |->
        <<selected[i].class_name, selected[i].line_number, selected[i].mutator>>]

Attempt(sorted, seed, step, m) ==
    LET selected == SortSelected(SelectIndices(sorted, seed, step, NumForMutant(seed, m)))
    IN  [selected |-> selected, signature |-> Signature(selected)]

\* "if signature in used_combinations": the retry with the alternate seed
SelectionRetrySameStep(sorted, used, mutant_seed, m) ==
    LET first == Attempt(sorted, mutant_seed, STEP, m)
    IN  IF first.signature \in used
        THEN Attempt(sorted, mutant_seed + ALT_OFFSET, STEP, m)
        ELSE first
SelectionWithoutRetry(sorted, used, mutant_seed, m) ==
    Attempt(sorted, mutant_seed, STEP, m)
Selection(sorted, used, mutant_seed, m) ==
    LET first == Attempt(sorted, mutant_seed, STEP, m)
    IN  IF first.signature \in used
        THEN Attempt(sorted, mutant_seed + ALT_OFFSET, ALT_STEP, m)
        ELSE first

\* "if signature not in used_combinations"
IsNewAlways(signature, used) == TRUE
IsNew(signature, used) == signature \notin used

\* the project and bug keys a generator is built with
Key(project, bug) == [project_id |-> project, bug_id |-> bug]
OwnKey == Key("Math", "1")
OtherKeys == { Key("Lang", "2"), Key("", "") }

\* sum(ord(c) for c in text) of the texts used as keys and seeds
OrdSum ==
    [text \in {"Math", "Lang", "1", "2", "", "13", "42"} |->
        CASE text = "Math" -> 77 + 97 + 116 + 104
          [] text = "Lang" -> 76 + 97 + 110 + 103
          [] text = "1" -> 49
          [] text = "2" -> 50
          [] text = "13" -> 49 + 51
          [] text = "42" -> 52 + 50
          [] OTHER -> 0]

\* lines 18-25: the seed of self.rng (the sum stays far below 2**31)
SeedValue(g) ==
    IF applier_key[g].project_id # "" /\ applier_key[g].bug_id # ""
    THEN OrdSum[applier_key[g].project_id] + OrdSum[applier_key[g].bug_id]
            + OrdSum[ToString(random_seed)]
    ELSE random_seed

\* line 45: the seed the mutant seeds are counted from is self.random_seed;
\* self.rng is not used by generate_unique_mutants
BaseSeedOfRng(g) == SeedValue(g)
BaseSeed(g) == random_seed

MutantInfo(g, sel, mutant_seed) ==
    [mutant_id |-> [i \in DOMAIN sel.selected |-> sel.selected[i].mutant_id],
     project_id |-> applier_key[g].project_id,
     bug_id |-> applier_key[g].bug_id,
     mutations |-> sel.selected,
     num_mutations |-> Len(sel.selected),
     signature |-> sel.signature,
     generation_seed |-> mutant_seed]

----------------------------------------------------------------------------
\* The pool's variables while no pool runs
PoolIdle ==
    /\ max_workers = 1
    /\ mutants = <<>>
    /\ ppc = "returned"
    /\ task = <<>>
    /\ workspace = <<>>
    /\ successful_mutants = <<>>
    /\ failed_mutants = <<>>
    /\ collected = {}

\* The generator's variables while no generator runs
GenIdle ==
    /\ random_seed = 42
    /\ applier_key = <<>>
    /\ num_mutants = 0
    /\ max_mutations = 1
    /\ all_mutations = [g \in Instances |-> <<>>]
    /\ sorted_mutations = [g \in Instances |-> <<>>]
    /\ used_combinations = [g \in Instances |-> {}]
    /\ unique_mutants = [g \in Instances |-> <<>>]
    /\ mutant_num = [g \in Instances |-> 0]
    /\ gpc = [g \in Instances |-> "idle"]
    /\ calls = [g \in Instances |-> 0]
    /\ global_random = 1000

\* The two runs of the argument loop while none is made
ArgsIdle ==
    /\ valid_mutants = <<>>
    /\ worker_args = <<>>
    /\ apc = <<>>
    /\ wtask = <<>>
    /\ tree = <<>>

\* The single task while none runs
SingleIdle ==
    /\ combination = <<>>
    /\ source_files = <<>>
    /\ work_dir_files = <<>>
    /\ mutations_by_file = <<>>
    /\ spc = "listed"
    /\ sret = "pending"
    /\ patch_calls = <<>>
    /\ listed = "none"

\* The two directories while no copy is made
CloneIdle ==
    /\ original_dir = {}
    /\ copy_dir = [exists |-> FALSE, entries |-> {}]
    /\ copy_ret = "pending"
    /\ copy_before = [original |-> {}, copy |-> [exists |-> FALSE, entries |-> {}]]

\* The top-level loop while no run is made
MainIdle ==
    /\ projects_to_process = <<>>
    /\ bug_index = 1
    /\ mpc = "finished"
    /\ bug_runs = <<>>
    /\ success_count = 0
    /\ merged = <<>>

\* The parser while no log is parsed
ParserIdle ==
    /\ log_file = <<>>
    /\ parse_pc = <<>>
    /\ parse_pos = <<>>
    /\ parse_seen = {}
    /\ parse_out = <<>>
    /\ line_out = <<>>

\* The cleanup while no task is followed
ReclaimIdle ==
    /\ rpc = "returned"
    /\ procs = <<>>
    /\ pids = <<>>
    /\ kpos = 0
    /\ events = <<>>
    /\ caller = "none"

----------------------------------------------------------------------------
\* generate_unique_mutants as a state machine, one loop iteration per step

GenInit ==
    /\ random_seed \in Seeds
    /\ applier_key = [g \in Instances |-> OwnKey]
    /\ num_mutants \in 0..MaxNum
    /\ max_mutations \in 1..MaxPer
    /\ \E l \in RecordLists :
         \E p \in PermutationsOf(l) : all_mutations = (1 :> l) @@ (2 :> p)
    /\ sorted_mutations = [g \in Instances |-> <<>>]
    /\ used_combinations = [g \in Instances |-> {}]
    /\ unique_mutants = [g \in Instances |-> <<>>]
    /\ mutant_num = [g \in Instances |-> 0]
    /\ gpc = [g \in Instances |-> "idle"]
    /\ calls = [g \in Instances |-> 0]
    /\ global_random \in GlobalStates
    /\ PoolIdle
    /\ ArgsIdle
    /\ SingleIdle
    /\ CloneIdle
    /\ MainIdle
    /\ ParserIdle
    /\ ReclaimIdle

\* entry: sort the input, empty result list and signature set.  The instances
\* share no variable, so their steps commute: a call starts when no other call
\* is inside its loop.
GenCall(g) ==
    /\ gpc[g] \in {"idle", "returned"}
    /\ \A h \in Instances : gpc[h] # "loop"
    /\ calls[g] < MaxCalls
    /\ calls' = [calls EXCEPT ![g] = @ + 1]
    /\ sorted_mutations' = [sorted_mutations EXCEPT ![g] = SortMutations(all_mutations[g])]
    /\ used_combinations' = [used_combinations EXCEPT ![g] = {}]
    /\ unique_mutants' = [unique_mutants EXCEPT ![g] = <<>>]
    /\ mutant_num' = [mutant_num EXCEPT ![g] = 1]
    /\ gpc' = [gpc EXCEPT ![g] = "loop"]
    /\ UNCHANGED <<random_seed, applier_key, num_mutants, max_mutations, all_mutations,
                   global_random>>
    /\ UNCHANGED nonGenVars

\* one iteration of "for mutant_num in range(1, num_mutants + 1)"
GenIterate(g) ==
    /\ gpc[g] = "loop"
    /\ mutant_num[g] <= num_mutants
    /\ Len(sorted_mutations[g]) > 0
    /\ LET mutant_seed == BaseSeed(g) + mutant_num[g] * STRIDE
           sel == Selection(sorted_mutations[g], used_combinations[g],
                            mutant_seed, max_mutations)
       IN  IF IsNew(sel.signature, used_combinations[g])
           THEN /\ used_combinations' =
                      [used_combinations EXCEPT ![g] = @ \cup {sel.signature}]
                /\ unique_mutants' =
                      [unique_mutants EXCEPT ![g] = Append(@, MutantInfo(g, sel, mutant_seed))]
           ELSE UNCHANGED <<used_combinations, unique_mutants>>
    /\ mutant_num' = [mutant_num EXCEPT ![g] = @ + 1]
    /\ UNCHANGED <<random_seed, applier_key, num_mutants, max_mutations, all_mutations,
                   sorted_mutations, gpc, calls, global_random>>
    /\ UNCHANGED nonGenVars

\* "% len(sorted_mutations)" with an empty list: ZeroDivisionError leaves the call
GenRaise(g) ==
    /\ gpc[g] = "loop"
    /\ mutant_num[g] <= num_mutants
    /\ Len(sorted_mutations[g]) = 0
    /\ gpc' = [gpc EXCEPT ![g] = "raised"]
    /\ UNCHANGED <<random_seed, applier_key, num_mutants, max_mutations, all_mutations,
                   sorted_mutations, used_combinations, unique_mutants,
                   mutant_num, calls, global_random>>
    /\ UNCHANGED nonGenVars

\* the loop is exhausted: return unique_mutants
GenReturn(g) ==
    /\ gpc[g] = "loop"
    /\ mutant_num[g] > num_mutants
    /\ gpc' = [gpc EXCEPT ![g] = "returned"]
    /\ UNCHANGED <<random_seed, applier_key, num_mutants, max_mutations, all_mutations,
                   sorted_mutations, used_combinations, unique_mutants,
                   mutant_num, calls, global_random>>
    /\ UNCHANGED nonGenVars

\* other code of the process reseeds the global random module
Reseed ==
    /\ \E s \in GlobalStates : s # global_random /\ global_random' = s
    /\ UNCHANGED <<random_seed, applier_key, num_mutants, max_mutations, all_mutations,
                   sorted_mutations, used_combinations, unique_mutants,
                   mutant_num, gpc, calls>>
    /\ UNCHANGED nonGenVars

GenNext ==
    \/ \E g \in Instances : GenCall(g)
    \/ \E g \in Instances : GenIterate(g)
    \/ \E g \in Instances : GenRaise(g)
    \/ \E g \in Instances : GenReturn(g)
    \/ Reseed

SpecGen == GenInit /\ [][GenNext]_vars

----------------------------------------------------------------------------
\* Properties of generate_unique_mutants

Signatures(g) == [i \in DOMAIN unique_mutants[g] |-> unique_mutants[g][i].signature]
Range(s) == { s[i] : i \in DOMAIN s }

\* C1: the list built by one call of generate_unique_mutants never holds two
\* combinations with the same signature.
C1_UniqueSignatures ==
    \A g \in Instances :
        \A i, j \in DOMAIN unique_mutants[g] :
            i # j => unique_mutants[g][i].signature # unique_mutants[g][j].signature

\* a call that returned two or more combinations after skipping a colliding index
C1_Witness ==
    \E g \in Instances :
        /\ gpc[g] = "returned"
        /\ Len(unique_mutants[g]) >= 2
        /\ Len(unique_mutants[g]) < num_mutants

\* C2: two generator instances with the same seed, called with the same record
\* list and parameters, return lists of equal length with equal signatures at
\* every index, whatever the global random state and however many calls each
\* instance served before.
C2_Reproducible ==
    \A g, h \in Instances :
        (gpc[g] = "returned" /\ gpc[h] = "returned"
            /\ all_mutations[g] = all_mutations[h])
        => /\ Len(unique_mutants[g]) = Len(unique_mutants[h])
           /\ \A i \in DOMAIN unique_mutants[g] :
                unique_mutants[g][i].signature = unique_mutants[h][i].signature

\* both instances returned for the same input, one on its first call and the
\* other on a later one, with multi-record combinations in the result
C2_Witness ==
    /\ gpc[1] = "returned" /\ gpc[2] = "returned"
    /\ all_mutations[1] = all_mutations[2]
    /\ calls[1] = 1 /\ calls[2] > 1
    /\ Len(unique_mutants[1]) >= 2
    /\ \E i \in DOMAIN unique_mutants[1] : unique_mutants[1][i].num_mutations >= 2

\* C3: called with an empty record list and num_mutants >= 1, the generator
\* returns an empty list and does not raise.
C3_EmptyInputReturnsEmpty ==
    \A g \in Instances :
        (all_mutations[g] = <<>> /\ num_mutants >= 1 /\ calls[g] > 0 /\ gpc[g] # "loop")
        => (gpc[g] = "returned" /\ unique_mutants[g] = <<>>)

\* C4: for any permutation of the same records the generator returns the same
\* sequence of combinations (same records and signatures at every index).
\* (all_mutations[2] is a permutation of all_mutations[1].)
C4_OrderIndependent ==
    (gpc[1] = "returned" /\ gpc[2] = "returned")
    => unique_mutants[1] = unique_mutants[2]

\* C5: for a non-empty record list the generator returns at most num_mutants
\* combinations, each holding between 1 and max_mutations records, all of them
\* elements of the input list.
C5_BoundedCombinations ==
    \A g \in Instances :
        Len(all_mutations[g]) > 0
        => /\ Len(unique_mutants[g]) <= num_mutants
           /\ \A i \in DOMAIN unique_mutants[g] :
                /\ Len(unique_mutants[g][i].mutations) >= 1
                /\ Len(unique_mutants[g][i].mutations) <= max_mutations
                /\ Range(unique_mutants[g][i].mutations) \subseteq Range(all_mutations[g])

\* a call that returned num_mutants >= 2 combinations, one of them holding
\* max_mutations >= 2 records
C5_Witness ==
    \E g \in Instances :
        /\ gpc[g] = "returned"
        /\ num_mutants >= 2 /\ max_mutations >= 2
        /\ Len(unique_mutants[g]) = num_mutants
        /\ \E i \in DOMAIN unique_mutants[g] :
                Len(unique_mutants[g][i].mutations) = max_mutations

----------------------------------------------------------------------------
\* WorkerPool.process_mutants_parallel(work_dir, ..., mutants, project_id, bug_id)
\* and the tasks it submits (WorkerPool.process_single_mutant)

\* the identity the run expects: arguments project_id, bug_id
project_id == "Math"
bug_id == "1"

\* project/bug tags a combination of the input list can carry
Tags == { <<"Math", "1">>, <<"Math", "2">>, <<"Lang", "1">> }

\* the input lists: combination i has mutant_id i
MutantLists ==
    UNION { { [i \in 1..n |-> [mutant_id |-> i, project_id |-> tg[i][1], bug_id |-> tg[i][2]]] :
                tg \in [1..n -> Tags] } : n \in 0..MaxMutants }

\* "mutant.get('project_id') == project_id and mutant.get('bug_id') == bug_id"
IsValidProjectOnly(m) == m.project_id = project_id
IsValid(m) == m.project_id = project_id /\ m.bug_id = bug_id

\* a task before it is submitted
NewTask(stage) ==
    [stage |-> stage,          \* "dropped" | "queued" | "clone" | "patch" | "oracle"
                               \* | "finally" | "done"
     ret |-> "pending",        \* "pending" | "None" | "result_info"
     located |-> FALSE,        \* mutations_by_file is not empty
     patched |-> FALSE,        \* a source file of the workspace was rewritten
     coverage |-> "none",      \* coverage_output: "none" | "output" | "TIMEOUT"
     overran |-> FALSE,        \* the task took more than FUTURE_TIMEOUT seconds
     kill |-> "none",          \* finally, _kill_processes_for_path: "none" | "ok" | "raised"
     rmtree |-> "none"]        \* finally, shutil.rmtree: "none" | "ok" | "raised"

Running == { "clone", "patch", "oracle", "finally" }

PoolInit ==
    /\ GenIdle
    /\ ArgsIdle
    /\ SingleIdle
    /\ CloneIdle
    /\ MainIdle
    /\ ParserIdle
    /\ ReclaimIdle
    /\ max_workers \in 1..MaxWorkers
    /\ mutants \in MutantLists
    /\ ppc = "start"
    /\ task = [i \in DOMAIN mutants |-> NewTask("dropped")]
    /\ workspace = [i \in DOMAIN mutants |-> "absent"]
    /\ successful_mutants = <<>>
    /\ failed_mutants = <<>>
    /\ collected = {}

\* lines 190-228: keep the valid combinations, build their arguments (a
\* mutant_dir of its own for each: index and uuid in the name), submit them all
PoolSubmit ==
    /\ ppc = "start"
    /\ task' = [i \in DOMAIN mutants |->
                    IF IsValid(mutants[i]) THEN NewTask("queued") ELSE NewTask("dropped")]
    /\ ppc' = "collect"
    /\ UNCHANGED <<max_workers, mutants, workspace, successful_mutants,
                   failed_mutants, collected>>
    /\ UNCHANGED nonPoolVars

\* A free worker process of the executor takes the oldest queued task: lines
\* 24-51, with the task's own identity check
TaskStart(t) ==
    /\ ppc = "collect"
    /\ task[t].stage = "queued"
    /\ \A u \in DOMAIN task : u < t => task[u].stage # "queued"
    /\ Cardinality({ u \in DOMAIN task : task[u].stage \in Running }) < max_workers
    /\ task' = [task EXCEPT ![t] =
                  IF mutants[t].project_id # project_id \/ mutants[t].bug_id # bug_id
                  THEN [@ EXCEPT !.stage = "finally", !.ret = "None"]
                  ELSE [@ EXCEPT !.stage = "clone"]]
    /\ UNCHANGED <<max_workers, mutants, ppc, workspace, successful_mutants,
                   failed_mutants, collected>>
    /\ UNCHANGED nonPoolVars

\* lines 53-55, create_project_copy: copytree may fail and leave a partial tree
TaskCloneThenPatch(t) ==
    /\ task[t].stage = "clone"
    /\ \E left \in {"absent", "present"} : workspace' = [workspace EXCEPT ![t] = left]
    /\ task' = [task EXCEPT ![t].stage = "patch"]
    /\ UNCHANGED <<max_workers, mutants, ppc, successful_mutants, failed_mutants,
                   collected>>
    /\ UNCHANGED nonPoolVars
TaskClone(t) ==
    /\ task[t].stage = "clone"
    /\ \E ok \in BOOLEAN :
         IF ok
         THEN /\ workspace' = [workspace EXCEPT ![t] = "present"]
              /\ task' = [task EXCEPT ![t].stage = "patch"]
         ELSE /\ \E left \in {"absent", "present"} :
                    workspace' = [workspace EXCEPT ![t] = left]
              /\ task' = [task EXCEPT ![t].stage = "finally", ![t].ret = "None"]
    /\ UNCHANGED <<max_workers, mutants, ppc, successful_mutants, failed_mutants,
                   collected>>
    /\ UNCHANGED nonPoolVars

\* lines 57-90: locate the target files, then patch file by file; a failed
\* patch returns None
TaskPatch(t) ==
    /\ task[t].stage = "patch"
    /\ \E found \in BOOLEAN, success \in BOOLEAN :
         task' = [task EXCEPT ![t] =
                    IF ~found THEN [@ EXCEPT !.stage = "oracle"]
                    ELSE IF success
                    THEN [@ EXCEPT !.located = TRUE, !.patched = TRUE, !.stage = "oracle"]
                    ELSE [@ EXCEPT !.located = TRUE, !.stage = "finally", !.ret = "None"]]
    /\ UNCHANGED <<max_workers, mutants, ppc, workspace, successful_mutants,
                   failed_mutants, collected>>
    /\ UNCHANGED nonPoolVars

\* seconds an oracle subprocess takes: it ends quickly, ends late, or is cut
\* at COVERAGE_TIMEOUT
Durations == { 1, COVERAGE_TIMEOUT - 20, COVERAGE_TIMEOUT }

\* run_coverage_analysis: "defects4j coverage" (dc seconds) and, unless that
\* timed out, "defects4j test" (dt seconds; run_defects4j_test catches its own
\* timeout).  It always returns coverage_result.
CoverageOutput(dc) == IF dc >= COVERAGE_TIMEOUT THEN "TIMEOUT" ELSE "output"
OracleSeconds(dc, dt) == IF dc >= COVERAGE_TIMEOUT THEN dc ELSE dc + dt

\* lines 92-122: run the oracle and build result_info from coverage_result;
\* list(mutations_by_file.keys())[0] raises IndexError on an empty map, which
\* the except clause turns into None
TaskOracle(t) ==
    /\ task[t].stage = "oracle"
    /\ \E dc \in Durations, dt \in Durations :
         task' = [task EXCEPT ![t] =
                    [@ EXCEPT !.coverage = CoverageOutput(dc),
                              !.overran = OracleSeconds(dc, dt) > FUTURE_TIMEOUT,
                              !.ret = IF task[t].located THEN "result_info" ELSE "None",
                              !.stage = "finally"]]
    /\ UNCHANGED <<max_workers, mutants, ppc, workspace, successful_mutants,
                   failed_mutants, collected>>
    /\ UNCHANGED nonPoolVars

\* lines 124-128: any exception inside the try block returns None
TaskException(t) ==
    /\ task[t].stage \in {"clone", "patch", "oracle"}
    /\ task' = [task EXCEPT ![t].stage = "finally", ![t].ret = "None"]
    /\ UNCHANGED <<max_workers, mutants, ppc, workspace, successful_mutants,
                   failed_mutants, collected>>
    /\ UNCHANGED nonPoolVars

\* whether shutil.rmtree(mutant_dir) is reached after the kill step
RmtreeUnlessKillRaised(kill) == kill = "ok"
RmtreeReached(kill) == TRUE

\* lines 130-141, finally: kill the processes that reference mutant_dir, then
\* rmtree it; each in its own try block that swallows the exception.  rmtree
\* raises on a directory that is absent, and may raise on one that is present.
TaskFinally(t) ==
    /\ task[t].stage = "finally"
    /\ \E kill \in {"ok", "raised"}, rm \in {"ok", "raised"} :
         /\ workspace[t] = "absent" => rm = "raised"
         /\ IF RmtreeReached(kill)
            THEN /\ task' = [task EXCEPT ![t].stage = "done", ![t].kill = kill,
                                         ![t].rmtree = rm]
                 /\ workspace' = [workspace EXCEPT ![t] =
                                    IF rm = "ok" THEN "absent" ELSE @]
            ELSE /\ task' = [task EXCEPT ![t].stage = "done", ![t].kill = kill]
                 /\ UNCHANGED workspace
    /\ UNCHANGED <<max_workers, mutants, ppc, successful_mutants, failed_mutants,
                   collected>>
    /\ UNCHANGED nonPoolVars

\* "if result and result.get('project_id') == project_id and ..."
ResultAccepted(t) == task[t].ret = "result_info"

ResultInfo(t) ==
    [mutant_id |-> mutants[t].mutant_id, project_id |-> project_id, bug_id |-> bug_id,
     coverage_output |-> task[t].coverage]

\* lines 230-240: as_completed yields a finished future; future.result returns
\* at once, whatever time the task took
PoolCollectNoElse(t) ==
    /\ ppc = "collect"
    /\ task[t].stage = "done"
    /\ t \notin collected
    /\ collected' = collected \cup {t}
    /\ successful_mutants' = IF ResultAccepted(t)
                             THEN Append(successful_mutants, ResultInfo(t))
                             ELSE successful_mutants
    /\ failed_mutants' = Append(failed_mutants, mutants[t].mutant_id)
    /\ UNCHANGED <<max_workers, mutants, ppc, task, workspace>>
    /\ UNCHANGED nonPoolVars
PoolCollect(t) ==
    /\ ppc = "collect"
    /\ task[t].stage = "done"
    /\ t \notin collected
    /\ collected' = collected \cup {t}
    /\ IF ResultAccepted(t)
       THEN /\ successful_mutants' = Append(successful_mutants, ResultInfo(t))
            /\ UNCHANGED failed_mutants
       ELSE /\ failed_mutants' = Append(failed_mutants, mutants[t].mutant_id)
            /\ UNCHANGED successful_mutants
    /\ UNCHANGED <<max_workers, mutants, ppc, task, workspace>>
    /\ UNCHANGED nonPoolVars

\* the loop over as_completed ends when every submitted future was yielded
CollectLoopEndsOnFailure ==
    \/ \A t \in DOMAIN task : task[t].stage # "dropped" => t \in collected
    \/ failed_mutants # <<>>
CollectLoopEnds ==
    \A t \in DOMAIN task : task[t].stage # "dropped" => t \in collected

\* line 242: return successful_mutants, failed_mutants
PoolReturn ==
    /\ ppc = "collect"
    /\ CollectLoopEnds
    /\ ppc' = "returned"
    /\ UNCHANGED <<max_workers, mutants, task, workspace, successful_mutants,
                   failed_mutants, collected>>
    /\ UNCHANGED nonPoolVars

PoolNext ==
    \/ PoolSubmit
    \/ \E t \in DOMAIN task : TaskStart(t)
    \/ \E t \in DOMAIN task : TaskClone(t)
    \/ \E t \in DOMAIN task : TaskPatch(t)
    \/ \E t \in DOMAIN task : TaskOracle(t)
    \/ \E t \in DOMAIN task : TaskException(t)
    \/ \E t \in DOMAIN task : TaskFinally(t)
    \/ \E t \in DOMAIN task : PoolCollect(t)
    \/ PoolReturn

SpecPool == PoolInit /\ [][PoolNext]_vars

----------------------------------------------------------------------------
\* Properties of the pool and its tasks

Succeeded(t) == \E i \in DOMAIN successful_mutants :
                    successful_mutants[i].mutant_id = mutants[t].mutant_id
Failed(t) == \E i \in DOMAIN failed_mutants : failed_mutants[i] = mutants[t].mutant_id

\* C6 as claimed: on every exit path the workspace directory is removed before
\* the task returns, and no task workspace exists after the pool returned.
C6_WorkspaceRemoved ==
    /\ \A t \in DOMAIN task : task[t].stage = "done" => workspace[t] = "absent"
    /\ ppc = "returned" => \A t \in DOMAIN task : workspace[t] = "absent"

\* C6 as amended: on every exit path the removal of the workspace directory is
\* attempted before the task returns, also when the process-cleanup step
\* raised; the directory is gone unless that removal itself raised, and after
\* the pool returned only workspaces whose removal raised can still exist.
C6_RemovalAttempted ==
    /\ \A t \in DOMAIN task :
            task[t].stage = "done"
            => /\ task[t].rmtree # "none"
               /\ workspace[t] = "present" => task[t].rmtree = "raised"
    /\ ppc = "returned"
       => \A t \in DOMAIN task :
            workspace[t] = "present" => (task[t].stage = "done" /\ task[t].rmtree = "raised")

\* a task that cloned, patched and ran the oracle, whose process cleanup raised
\* and whose workspace was removed all the same
C6_Witness ==
    \E t \in DOMAIN task :
        /\ task[t].stage = "done"
        /\ task[t].ret = "result_info"
        /\ task[t].kill = "raised"
        /\ task[t].rmtree = "ok"
        /\ workspace[t] = "absent"

\* C7: a task whose oracle subprocess ran into the oracle timeout ends in the
\* failed list with no result in the succeeded list, and its workspace does not
\* exist after the run.
C7_OracleTimeoutFails ==
    \A t \in collected :
        task[t].coverage = "TIMEOUT"
        => /\ Failed(t)
           /\ ~Succeeded(t)
           /\ ppc = "returned" => workspace[t] = "absent"

\* C8: a task that ran longer than the per-task timeout of the pool is recorded
\* in the failed list and its workspace is reclaimed.
C8_OverallTimeoutEnforced ==
    \A t \in collected :
        task[t].overran
        => /\ Failed(t)
           /\ ~Succeeded(t)
           /\ ppc = "returned" => workspace[t] = "absent"

\* C9: when the pool returns, every submitted task has run to its own outcome
\* whatever happened to its siblings, and the pool holds that outcome: a result
\* in the succeeded list, or the id in the failed list.
C9_SiblingsUnaffected ==
    ppc = "returned"
    => \A t \in DOMAIN task :
            task[t].stage # "dropped"
            => /\ task[t].stage = "done"
               /\ task[t].ret = "result_info" => (Succeeded(t) /\ ~Failed(t))
               /\ task[t].ret = "None" => (Failed(t) /\ ~Succeeded(t))

\* one worker, two tasks: the first failed, the second was scheduled after it
\* and succeeded, and the pool returned both outcomes
C9_Witness ==
    /\ ppc = "returned"
    /\ max_workers = 1
    /\ Len(mutants) >= 2
    /\ task[1].ret = "None" /\ Failed(1)
    /\ task[2].ret = "result_info" /\ Succeeded(2)

\* C10: a combination whose project or bug tag differs from the expected
\* identity is never scheduled: it stays untouched (no clone, no patch, no
\* oracle), has no workspace and is in neither list.
C10_MismatchNeverScheduled ==
    \A t \in DOMAIN mutants :
        (mutants[t].project_id # project_id \/ mutants[t].bug_id # bug_id)
        => /\ task[t] = NewTask("dropped")
           /\ workspace[t] = "absent"
           /\ ~Succeeded(t)
           /\ ~Failed(t)

\* the pool returned a result for a valid combination and dropped one with the
\* right project and the wrong bug
C10_Witness ==
    /\ ppc = "returned"
    /\ \E t \in DOMAIN mutants :
            mutants[t].project_id = project_id /\ mutants[t].bug_id # bug_id
    /\ successful_mutants # <<>>

----------------------------------------------------------------------------
\* process_mutants_parallel lines 202-221: the arguments of every task
\* (mutant_dir, worker_seed), in two runs of the same project and bug; run 2
\* starts when run 1 returned (process_mutants_parallel blocks its caller).
\* Here mutant_id is the list of record ids generate_unique_mutants joins
\* with "|".

Runs == {1, 2}

\* uuid.uuid4().hex values (32 hex digits in the program)
Uuids == { "c0ffee", "decade" }

\* os.getpid() of the executor's worker processes
Pids == { 101, 102 }

\* the mutant_info dicts a run can be given; 'generation_seed' may be missing
Infos ==
    { [mutant_id |-> <<1>>, generation_seed |-> 42],
      [mutant_id |-> <<1, 3>>, generation_seed |-> 2042],
      [mutant_id |-> <<1>>] }

InfoLists == UNION { [1..n -> Infos] : n \in 0..MaxMutants }

\* sep.join(str(id) for id in ids)
RECURSIVE Join(_, _)
Join(ids, sep) ==
    IF ids = <<>> THEN ""
    ELSE IF Len(ids) = 1 THEN ToString(ids[1])
    ELSE ToString(ids[1]) \o sep \o Join(Tail(ids), sep)

\* str(mutant_info.get('mutant_id', ''))
RawMid(info) == Join(info.mutant_id, "|")

\* re.sub(r'[^A-Za-z0-9_.-]', '_', raw_mid): the ids are digits, "|" is unsafe
SafeMid(info) == Join(info.mutant_id, "_")

\* mutant_info.get('generation_seed', 42)
GenerationSeed(info) ==
    IF "generation_seed" \in DOMAIN info THEN info.generation_seed ELSE 42

\* f"temp_mutant_{project_id}_{bug_id}_{safe_mid}_{i}_{uuid.uuid4().hex}"
MutantDirWithoutIndex(p, b, safe_mid, i, uuid) ==
    "temp_mutant_" \o p \o "_" \o b \o "_" \o safe_mid \o "_" \o uuid
MutantDir(p, b, safe_mid, i, uuid) ==
    "temp_mutant_" \o p \o "_" \o b \o "_" \o safe_mid \o "_" \o ToString(i)
        \o "_" \o uuid

\* f"{project_id}{bug_id}{mutant_info['mutant_id']}{generation_seed}"
SeedSource(p, b, raw_mid, generation_seed) ==
    p \o b \o raw_mid \o ToString(generation_seed)

\* int(hashlib.md5(s.encode()).hexdigest(), 16) % (2**31), tabulated for the
\* seed sources the model reaches
Md5Table ==
    [ s \in { "Math1142", "Math11|32042" } |->
        CASE s = "Math1142" -> 1825076426
          [] s = "Math11|32042" -> 1889170880 ]

\* the hash of the seed source
Md5Mod31ByPosition(s) == Md5Table[s] - Len(worker_args[1]) - Len(worker_args[2])
Md5Mod31(s) == Md5Table[s]

\* one iteration of "for i, mutant_info in enumerate(valid_mutants)"; i is
\* 0-based
WorkerArgs(info, i, uuid) ==
    [mutant_dir |-> MutantDir(project_id, bug_id, SafeMid(info), i, uuid),
     mutant_info |-> info,
     worker_seed |->
        Md5Mod31(SeedSource(project_id, bug_id, RawMid(info), GenerationSeed(info)))]

\* a task of the run before a worker process took it
QueuedTask == [stage |-> "queued", pid |-> 0, seed |-> 0]

\* the same combinations in the opposite order
Reverse(l) == [i \in DOMAIN l |-> l[Len(l) + 1 - i]]

ArgsInit ==
    /\ \E l \in InfoLists : valid_mutants = (1 :> l) @@ (2 :> Reverse(l))
    /\ worker_args = [r \in Runs |-> <<>>]
    /\ apc = [r \in Runs |-> "build"]
    /\ wtask = [r \in Runs |-> <<>>]
    /\ tree = [r \in Runs |-> <<>>]
    /\ GenIdle
    /\ PoolIdle
    /\ SingleIdle
    /\ CloneIdle
    /\ MainIdle
    /\ ParserIdle
    /\ ReclaimIdle

\* lines 202-228: one iteration of the loop that builds worker_args; after the
\* last one every task is submitted
ArgsBuild(r) ==
    /\ apc[r] = "build"
    /\ r = 2 => apc[1] = "returned"
    /\ Len(worker_args[r]) < Len(valid_mutants[r])
    /\ \E uuid \in Uuids :
         LET i == Len(worker_args[r])
             args == WorkerArgs(valid_mutants[r][i + 1], i, uuid)
         IN  /\ worker_args' = [worker_args EXCEPT ![r] = Append(@, args)]
             /\ tree' = [tree EXCEPT ![r] = (args.mutant_dir :> {}) @@ @]
    /\ UNCHANGED <<valid_mutants, apc, wtask>>
    /\ UNCHANGED nonArgVars

ArgsSubmit(r) ==
    /\ apc[r] = "build"
    /\ r = 2 => apc[1] = "returned"
    /\ Len(worker_args[r]) = Len(valid_mutants[r])
    /\ apc' = [apc EXCEPT ![r] = "exec"]
    /\ wtask' = [wtask EXCEPT ![r] = [k \in DOMAIN worker_args[r] |-> QueuedTask]]
    /\ UNCHANGED <<valid_mutants, worker_args, tree>>
    /\ UNCHANGED nonArgVars

\* lines 24-42: an idle worker process takes the oldest queued task and seeds
\* the random module with the worker_seed of its arguments
ArgsTaskStart(r, k) ==
    /\ apc[r] = "exec"
    /\ wtask[r][k].stage = "queued"
    /\ \A j \in DOMAIN wtask[r] : j < k => wtask[r][j].stage # "queued"
    /\ \E pid \in Pids :
         /\ \A j \in DOMAIN wtask[r] :
                wtask[r][j].stage \in Running => wtask[r][j].pid # pid
         /\ wtask' = [wtask EXCEPT ![r][k] =
                        [stage |-> "clone", pid |-> pid,
                         seed |-> worker_args[r][k].worker_seed]]
    /\ UNCHANGED <<valid_mutants, worker_args, apc, tree>>
    /\ UNCHANGED nonArgVars

\* line 54, create_project_copy(work_dir, mutant_dir): whatever the directory
\* held is removed and the copy of the checkout takes its place
ArgsTaskClone(r, k) ==
    /\ wtask[r][k].stage = "clone"
    /\ tree' = [tree EXCEPT ![r][worker_args[r][k].mutant_dir] = {k}]
    /\ wtask' = [wtask EXCEPT ![r][k].stage = "patch"]
    /\ UNCHANGED <<valid_mutants, worker_args, apc>>
    /\ UNCHANGED nonArgVars

\* lines 58-90: the target files are looked up and rewritten under mutant_dir
ArgsTaskPatch(r, k) ==
    /\ wtask[r][k].stage = "patch"
    /\ tree' = [tree EXCEPT ![r][worker_args[r][k].mutant_dir] = @ \cup {k}]
    /\ wtask' = [wtask EXCEPT ![r][k].stage = "oracle"]
    /\ UNCHANGED <<valid_mutants, worker_args, apc>>
    /\ UNCHANGED nonArgVars

\* lines 93-95, run_coverage_analysis(mutant_dir, ...): the oracle subprocesses
\* run with cwd=mutant_dir and write their reports there
ArgsTaskOracle(r, k) ==
    /\ wtask[r][k].stage = "oracle"
    /\ tree' = [tree EXCEPT ![r][worker_args[r][k].mutant_dir] = @ \cup {k}]
    /\ wtask' = [wtask EXCEPT ![r][k].stage = "finally"]
    /\ UNCHANGED <<valid_mutants, worker_args, apc>>
    /\ UNCHANGED nonArgVars

\* lines 130-141: kill the processes that reference mutant_dir, remove it; the
\* worker process is free again
ArgsTaskFinally(r, k) ==
    /\ wtask[r][k].stage = "finally"
    /\ tree' = [tree EXCEPT ![r][worker_args[r][k].mutant_dir] = {}]
    /\ wtask' = [wtask EXCEPT ![r][k].stage = "done", ![r][k].pid = 0]
    /\ UNCHANGED <<valid_mutants, worker_args, apc>>
    /\ UNCHANGED nonArgVars

\* lines 230-242: every future was collected
ArgsReturn(r) ==
    /\ apc[r] = "exec"
    /\ \A k \in DOMAIN wtask[r] : wtask[r][k].stage = "done"
    /\ apc' = [apc EXCEPT ![r] = "returned"]
    /\ UNCHANGED <<valid_mutants, worker_args, wtask, tree>>
    /\ UNCHANGED nonArgVars

ArgsNext ==
    \/ \E r \in Runs : ArgsBuild(r)
    \/ \E r \in Runs : ArgsSubmit(r)
    \/ \E r \in Runs : \E k \in DOMAIN wtask[r] : ArgsTaskStart(r, k)
    \/ \E r \in Runs : \E k \in DOMAIN wtask[r] : ArgsTaskClone(r, k)
    \/ \E r \in Runs : \E k \in DOMAIN wtask[r] : ArgsTaskPatch(r, k)
    \/ \E r \in Runs : \E k \in DOMAIN wtask[r] : ArgsTaskOracle(r, k)
    \/ \E r \in Runs : \E k \in DOMAIN wtask[r] : ArgsTaskFinally(r, k)
    \/ \E r \in Runs : ArgsReturn(r)

SpecArgs == ArgsInit /\ [][ArgsNext]_vars

----------------------------------------------------------------------------
\* Properties of the task arguments

\* the four values the worker seed is derived from
SeedKey(info) == <<project_id, bug_id, RawMid(info), GenerationSeed(info)>>

\* C11: the worker seed is a function of (project_id, bug_id, mutant_id,
\* generation_seed) only: two tasks with the same four values, in the same run
\* or in two runs, at any position of the input list, with any workspace name
\* and on any worker process, are built with and started on the same seed.
C11_WorkerSeedFunctionOfKey ==
    \A r, s \in Runs :
        \A k \in DOMAIN worker_args[r], j \in DOMAIN worker_args[s] :
            SeedKey(worker_args[r][k].mutant_info) = SeedKey(worker_args[s][j].mutant_info)
            => /\ worker_args[r][k].worker_seed = worker_args[s][j].worker_seed
               /\ \A t \in {<<r, k>>, <<s, j>>} :
                    (t[2] \in DOMAIN wtask[t[1]] /\ wtask[t[1]][t[2]].stage # "queued")
                    => wtask[t[1]][t[2]].seed = worker_args[r][k].worker_seed

\* run 1 returned; in run 2 two tasks with the same four values run at the
\* same time on different workers in different workspaces, and run 1 had those
\* values at another position under another workspace name
C11_Witness ==
    /\ apc[1] = "returned"
    /\ \E k, j \in DOMAIN wtask[2], i \in DOMAIN worker_args[1] :
        /\ k # j /\ i # j
        /\ SeedKey(worker_args[2][k].mutant_info) = SeedKey(worker_args[2][j].mutant_info)
        /\ SeedKey(worker_args[1][i].mutant_info) = SeedKey(worker_args[2][j].mutant_info)
        /\ worker_args[1][i].mutant_dir # worker_args[2][j].mutant_dir
        /\ wtask[2][k].stage \in Running /\ wtask[2][j].stage \in Running
        /\ wtask[2][k].pid # wtask[2][j].pid
        /\ wtask[2][k].seed = wtask[2][j].seed
        /\ wtask[1][i].seed = wtask[2][j].seed

\* C12: within one run no two tasks are given the same workspace directory,
\* and while a task is between its clone and its reclaim the tree in its
\* directory is used by that task alone.
C12_ExclusiveWorkspace ==
    \A r \in Runs :
        /\ \A k, j \in DOMAIN worker_args[r] :
                k # j => worker_args[r][k].mutant_dir # worker_args[r][j].mutant_dir
        /\ \A k \in DOMAIN wtask[r] :
                wtask[r][k].stage \in {"patch", "oracle", "finally"}
                => tree[r][worker_args[r][k].mutant_dir] = {k}

\* two tasks of one run for the same combination, both between clone and
\* reclaim at the same time, their directory names built with the same uuid
C12_Witness ==
    \E r \in Runs :
        \E k, j \in DOMAIN wtask[r] :
            /\ k # j
            /\ RawMid(worker_args[r][k].mutant_info) = RawMid(worker_args[r][j].mutant_info)
            /\ wtask[r][k].stage = "oracle"
            /\ wtask[r][j].stage = "patch"
            /\ tree[r][worker_args[r][k].mutant_dir] = {k}
            /\ tree[r][worker_args[r][j].mutant_dir] = {j}

----------------------------------------------------------------------------
\* Text.  A str is modelled as the sequence of its characters, a file as the
\* list f.readlines() returns: every line ends with "\n".

Whitespace == { " ", "\t", "\n" }

\* s[k-1:].startswith(sub), k counted from 1
StartsWithAt(s, sub, k) ==
    /\ k + Len(sub) - 1 <= Len(s)
    /\ SubSeq(s, k, k + Len(sub) - 1) = sub

\* "sub in s"
Contains(s, sub) == \E k \in 1..(Len(s) + 1) : StartsWithAt(s, sub, k)

\* s.find(sub), counted from 1: 0 where Python returns -1
Find(s, sub) ==
    IF Contains(s, sub)
    THEN CHOOSE k \in 1..(Len(s) + 1) :
            /\ StartsWithAt(s, sub, k)
            /\ \A j \in 1..(k - 1) : ~StartsWithAt(s, sub, j)
    ELSE 0

\* s.replace("", new): new goes in front of every character and at the end
RECURSIVE ReplaceEmpty(_, _)
ReplaceEmpty(s, new) ==
    IF s = <<>> THEN new ELSE new \o <<Head(s)>> \o ReplaceEmpty(Tail(s), new)

\* s.replace(old, new): every occurrence of old, found from left to right
\* without overlap, becomes new
RECURSIVE ReplaceOccurrences(_, _, _)
ReplaceOccurrences(s, old, new) ==
    IF s = <<>> THEN <<>>
    ELSE IF StartsWithAt(s, old, 1)
    THEN new \o ReplaceOccurrences(SubSeq(s, Len(old) + 1, Len(s)), old, new)
    ELSE <<Head(s)>> \o ReplaceOccurrences(Tail(s), old, new)

ReplaceWholeString(s, old, new) == new
Replace(s, old, new) ==
    IF old = <<>> THEN ReplaceEmpty(s, new) ELSE ReplaceOccurrences(s, old, new)

\* s.strip()
RECURSIVE LStrip(_)
LStrip(s) == IF s # <<>> /\ Head(s) \in Whitespace THEN LStrip(Tail(s)) ELSE s

RECURSIVE RStrip(_)
RStrip(s) ==
    IF s # <<>> /\ s[Len(s)] \in Whitespace THEN RStrip(SubSeq(s, 1, Len(s) - 1)) ELSE s

Strip(s) == RStrip(LStrip(s))

\* before + new + after, with before = s[:start_idx] and after = s[end_idx:];
\* start counted from 1
Splice(s, start, length, new) ==
    SubSeq(s, 1, start - 1) \o new \o SubSeq(s, start + length, Len(s))

----------------------------------------------------------------------------
\* The patcher: apply_mutation_to_file and apply_multiple_mutations

\* the match policy both functions apply to the target line: exact match, then
\* the match of the stripped original in the stripped line
ApplyToLineReplaceAll(original_line, original_code, mutated_code) ==
    IF Contains(original_line, original_code)
    THEN [matched |-> TRUE, line |-> Replace(original_line, original_code, mutated_code)]
    ELSE IF Contains(Strip(original_line), Strip(original_code))
    THEN [matched |-> TRUE,
          line |-> Replace(original_line, Strip(original_code), mutated_code)]
    ELSE [matched |-> FALSE, line |-> original_line]

ApplyToLine(original_line, original_code, mutated_code) ==
    IF Contains(original_line, original_code)
    THEN [matched |-> TRUE, line |-> Replace(original_line, original_code, mutated_code)]
    ELSE IF Contains(Strip(original_line), Strip(original_code))
    THEN LET stripped_original == Strip(original_code)
             start_idx == Find(original_line, stripped_original)
         IN  [matched |-> TRUE,
              line |-> IF start_idx # 0
                       THEN Splice(original_line, start_idx, Len(stripped_original),
                                   mutated_code)
                       ELSE original_line]
    ELSE [matched |-> FALSE, line |-> original_line]

\* apply_mutation_to_file on an existing file with content lines: the value
\* returned and the content of the file afterwards
ApplyMutationToFileWriteFirst(lines, line_number, original_code, mutated_code) ==
    IF line_number < 1 \/ line_number > Len(lines)
    THEN [success |-> FALSE, lines |-> lines]
    ELSE [success |-> ApplyToLine(lines[line_number], original_code, mutated_code).matched,
          lines |-> [lines EXCEPT ![line_number] = mutated_code \o <<"\n">>]]
ApplyMutationToFile(lines, line_number, original_code, mutated_code) ==
    IF line_number < 1 \/ line_number > Len(lines)
    THEN [success |-> FALSE, lines |-> lines]
    ELSE LET r == ApplyToLine(lines[line_number], original_code, mutated_code)
         IN  IF r.matched
             THEN [success |-> TRUE, lines |-> [lines EXCEPT ![line_number] = r.line]]
             ELSE [success |-> FALSE, lines |-> lines]

\* sorted(mutations, key=lambda x: x['line_number'], reverse=True): stable, so
\* x goes behind every element whose line number is not smaller than its own
RECURSIVE InsertDescending(_, _)
InsertDescending(x, s) ==
    IF s = <<>> THEN <<x>>
    ELSE IF x.line_number > Head(s).line_number THEN <<x>> \o s
    ELSE <<Head(s)>> \o InsertDescending(x, Tail(s))

RECURSIVE SortDescending(_)
SortDescending(s) ==
    IF s = <<>> THEN <<>>
    ELSE InsertDescending(s[Len(s)], SortDescending(SubSeq(s, 1, Len(s) - 1)))

\* the loop body of apply_multiple_mutations: an out-of-range line number and
\* a line that matches in neither way leave lines as it is
ApplyInBatch(lines, mutation) ==
    IF mutation.line_number < 1 \/ mutation.line_number > Len(lines)
    THEN lines
    ELSE [lines EXCEPT ![mutation.line_number] =
            ApplyToLine(@, mutation.original_code, mutation.mutated_code).line]

RECURSIVE ApplyBatch(_, _)
ApplyBatch(lines, mutations_sorted) ==
    IF mutations_sorted = <<>> THEN lines
    ELSE ApplyBatch(ApplyInBatch(lines, Head(mutations_sorted)), Tail(mutations_sorted))

\* apply_multiple_mutations on an existing file: the lines are written and True
\* is returned whatever matched
ApplyMultipleMutations(lines, mutations) ==
    [success |-> TRUE, lines |-> ApplyBatch(lines, SortDescending(mutations))]

----------------------------------------------------------------------------
\* One task in detail: process_single_mutant from the lookup of the target
\* files to its result, and the pool's bookkeeping of that result

\* the source files of a fresh workspace: class 1 and class 2 have a file,
\* class 3 has none
Checkout ==
    (1 :> << <<" ", "a", "+", "a", "\n">>, <<"b", "\n">> >>) @@
    (2 :> << <<"a", "b", "\n">> >>)

ClassNames == { 1, 2, 3 }
LineNumbers == { 0, 1, 2, 3 }
OriginalCodes == { <<"a">>, <<"a", " ">>, <<"b">>, <<"b", " ">>, <<"c">> }
MutatedCodes == { <<"x">> }

\* the mutation records of a combination, with the fields the task reads
PatchRecords ==
    [class_name : ClassNames, line_number : LineNumbers,
     original_code : OriginalCodes, mutated_code : MutatedCodes]

Combinations == UNION { [1..n -> PatchRecords] : n \in 1..MaxPer }

\* line 58: the source directories of a task are the relative source
\* directories under mutant_dir, the task's copy of the checkout at work_dir
SourceRootWorkDir == "work_dir"
SourceRoot == "mutant_dir"

\* the files under a root directory
FilesUnder(root) == IF root = "mutant_dir" THEN source_files ELSE work_dir_files

\* find_java_file_by_class: the file of the class under the source
\* directories, 0 for None
FindJavaFileByClass(class_name, files) ==
    IF class_name \in DOMAIN files THEN class_name ELSE 0

\* lines 62-77: mutations_by_file, a dict in insertion order, as the list of
\* its items
RECURSIVE GroupByFile(_, _, _)
GroupByFile(mutations, files, by_file) ==
    IF mutations = <<>> THEN by_file
    ELSE LET mutation == Head(mutations)
             target_file == FindJavaFileByClass(mutation.class_name, files)
         IN  IF target_file = 0
             THEN GroupByFile(Tail(mutations), files, by_file)
             ELSE IF \E n \in DOMAIN by_file : by_file[n].target_file = target_file
             THEN GroupByFile(Tail(mutations), files,
                    [n \in DOMAIN by_file |->
                        IF by_file[n].target_file = target_file
                        THEN [by_file[n] EXCEPT !.file_mutations = Append(@, mutation)]
                        ELSE by_file[n]])
             ELSE GroupByFile(Tail(mutations), files,
                    Append(by_file, [target_file |-> target_file,
                                     file_mutations |-> <<mutation>>]))

\* list(mutations_by_file.keys())[0]
FirstKeyOrNone(by_file) == IF by_file = <<>> THEN "None" ELSE "target_file"
FirstKey(by_file) == IF by_file = <<>> THEN "IndexError" ELSE "target_file"

SingleInit ==
    /\ combination \in Combinations
    /\ source_files = Checkout
    /\ work_dir_files = Checkout
    /\ mutations_by_file = <<>>
    /\ spc = "locate"
    /\ sret = "pending"
    /\ patch_calls = <<>>
    /\ listed = "none"
    /\ GenIdle
    /\ PoolIdle
    /\ ArgsIdle
    /\ CloneIdle
    /\ MainIdle
    /\ ParserIdle
    /\ ReclaimIdle

\* lines 57-77: look every record's file up, skip the records without one
SingleLocate ==
    /\ spc = "locate"
    /\ mutations_by_file' = GroupByFile(combination, FilesUnder(SourceRoot), <<>>)
    /\ spc' = IF mutations_by_file' = <<>> THEN "oracle" ELSE "apply"
    /\ UNCHANGED <<combination, source_files, work_dir_files, sret, patch_calls,
                   listed>>
    /\ UNCHANGED nonSingleVars

\* lines 80-90: one iteration of the loop over mutations_by_file.items(); a
\* call that reports failure makes the task return None
SingleApply ==
    /\ spc = "apply"
    /\ LET item == mutations_by_file[Len(patch_calls) + 1]
           lines == FilesUnder(SourceRoot)[item.target_file]
           m == item.file_mutations[1]
           one == Len(item.file_mutations) = 1
           r == IF one
                THEN ApplyMutationToFile(lines, m.line_number, m.original_code,
                                         m.mutated_code)
                ELSE ApplyMultipleMutations(lines, item.file_mutations)
       IN  /\ IF SourceRoot = "mutant_dir"
              THEN /\ source_files' = [source_files EXCEPT
                                          ![item.target_file] = r.lines]
                   /\ UNCHANGED work_dir_files
              ELSE /\ work_dir_files' = [work_dir_files EXCEPT
                                            ![item.target_file] = r.lines]
                   /\ UNCHANGED source_files
           /\ patch_calls' = Append(patch_calls,
                [function |-> IF one THEN "apply_mutation_to_file"
                              ELSE "apply_multiple_mutations",
                 root |-> SourceRoot,
                 target_file |-> item.target_file,
                 before |-> lines,
                 mutations |-> item.file_mutations,
                 success |-> r.success,
                 after |-> r.lines])
           /\ IF ~r.success
              THEN sret' = "None" /\ spc' = "collect"
              ELSE /\ sret' = sret
                   /\ spc' = IF Len(patch_calls') = Len(mutations_by_file)
                             THEN "oracle" ELSE "apply"
    /\ UNCHANGED <<combination, mutations_by_file, listed>>
    /\ UNCHANGED nonSingleVars

\* lines 92-128: run the oracle, build result_info; the IndexError of an empty
\* mutations_by_file is caught and the task returns None
SingleOracle ==
    /\ spc = "oracle"
    /\ sret' = IF FirstKey(mutations_by_file) = "IndexError" THEN "None" ELSE "result_info"
    /\ spc' = "collect"
    /\ UNCHANGED <<combination, source_files, work_dir_files, mutations_by_file,
                   patch_calls, listed>>
    /\ UNCHANGED nonSingleVars

\* lines 230-240: the pool files the result of the future
SingleCollect ==
    /\ spc = "collect"
    /\ listed' = IF sret = "result_info" THEN "successful_mutants" ELSE "failed_mutants"
    /\ spc' = "listed"
    /\ UNCHANGED <<combination, source_files, work_dir_files, mutations_by_file,
                   sret, patch_calls>>
    /\ UNCHANGED nonSingleVars

SingleNext ==
    \/ SingleLocate
    \/ SingleApply
    \/ SingleOracle
    \/ SingleCollect

SpecSingle == SingleInit /\ [][SingleNext]_vars

----------------------------------------------------------------------------
\* Properties of the patcher and of the single task

\* line_number is a line of the file
InRange(lines, line_number) == line_number >= 1 /\ line_number <= Len(lines)

\* the line matches original_code neither exactly nor after stripping
NoMatch(line, original_code) ==
    /\ ~Contains(line, original_code)
    /\ ~Contains(Strip(line), Strip(original_code))

\* the mutation cannot be applied to the file: no such line, or no match
FailsToMatch(lines, mutation) ==
    \/ ~InRange(lines, mutation.line_number)
    \/ NoMatch(lines[mutation.line_number], mutation.original_code)

\* number of places of line where original_code starts
Occurrences(line, original_code) ==
    Cardinality({ k \in 1..Len(line) : StartsWithAt(line, original_code, k) })

\* new is old with mutated in place of original at one or more of the places
\* where original occurs, and nothing else changed
RECURSIVE Substituted(_, _, _, _)
Substituted(old, new, original, mutated) ==
    \E k \in 1..Len(old) :
        /\ StartsWithAt(old, original, k)
        /\ StartsWithAt(new, SubSeq(old, 1, k - 1) \o mutated, 1)
        /\ LET old_rest == SubSeq(old, k + Len(original), Len(old))
               new_rest == SubSeq(new, k + Len(mutated), Len(new))
           IN  \/ new_rest = old_rest
               \/ Substituted(old_rest, new_rest, original, mutated)

\* the record's file is in the workspace
Located(mutation) == FindJavaFileByClass(mutation.class_name, Checkout) # 0

\* the record's file is in the workspace, the line exists and the original
\* text is not found on it
Mismatch(mutation) ==
    /\ Located(mutation)
    /\ InRange(Checkout[mutation.class_name], mutation.line_number)
    /\ NoMatch(Checkout[mutation.class_name][mutation.line_number],
               mutation.original_code)

\* C13: apply_mutation_to_file on an in-range line that contains original_code
\* exactly returns success; afterwards that line is the old line with
\* mutated_code in place of original_code and every other line of the file is
\* unchanged.
C13_ExactMatchFrame ==
    \A n \in DOMAIN patch_calls :
        LET c == patch_calls[n]
            m == c.mutations[1]
        IN  (/\ c.function = "apply_mutation_to_file"
             /\ InRange(c.before, m.line_number)
             /\ Contains(c.before[m.line_number], m.original_code))
            => /\ c.success
               /\ Len(c.after) = Len(c.before)
               /\ Substituted(c.before[m.line_number], c.after[m.line_number],
                              m.original_code, m.mutated_code)
               /\ \A i \in DOMAIN c.before :
                    i # m.line_number => c.after[i] = c.before[i]
               /\ source_files[c.target_file] = c.after

\* a successful exact-match call on the second line of a two-line file
C13_Witness ==
    \E n \in DOMAIN patch_calls :
        /\ patch_calls[n].function = "apply_mutation_to_file"
        /\ patch_calls[n].success
        /\ Len(patch_calls[n].before) = 2
        /\ patch_calls[n].mutations[1].line_number = 2
        /\ Contains(patch_calls[n].before[2], patch_calls[n].mutations[1].original_code)
        /\ patch_calls[n].after # patch_calls[n].before

\* C14: apply_mutation_to_file reports failure when the line number is out of
\* range or original_code matches the line neither exactly nor stripped, and
\* whenever it reports failure the file holds what it held before the call.
C14_FailureLeavesFile ==
    \A n \in DOMAIN patch_calls :
        LET c == patch_calls[n]
        IN  c.function = "apply_mutation_to_file"
            => /\ FailsToMatch(c.before, c.mutations[1]) => ~c.success
               /\ ~c.success => /\ c.after = c.before
                                /\ source_files[c.target_file] = c.before

\* a call that failed on an existing line without a match
C14_Witness ==
    \E n \in DOMAIN patch_calls :
        /\ patch_calls[n].function = "apply_mutation_to_file"
        /\ ~patch_calls[n].success
        /\ InRange(patch_calls[n].before, patch_calls[n].mutations[1].line_number)
        /\ source_files[patch_calls[n].target_file] = patch_calls[n].before

\* C15: in apply_multiple_mutations, if any mutation of the batch fails to
\* match its target line (line out of range or original text not found) the
\* batch is aborted: the call reports failure and the file is unmodified.
C15_BatchAborts ==
    \A n \in DOMAIN patch_calls :
        LET c == patch_calls[n]
        IN  (/\ c.function = "apply_multiple_mutations"
             /\ \E i \in DOMAIN c.mutations : FailsToMatch(c.before, c.mutations[i]))
            => /\ ~c.success
               /\ c.after = c.before

\* C16: when original_code occurs more than once in the target line, the exact
\* match of apply_mutation_to_file replaces the first occurrence only.
C16_FirstOccurrenceOnly ==
    \A n \in DOMAIN patch_calls :
        LET c == patch_calls[n]
            m == c.mutations[1]
        IN  (/\ c.function = "apply_mutation_to_file"
             /\ InRange(c.before, m.line_number)
             /\ Occurrences(c.before[m.line_number], m.original_code) > 1)
            => c.after[m.line_number] =
                  Splice(c.before[m.line_number],
                         Find(c.before[m.line_number], m.original_code),
                         Len(m.original_code), m.mutated_code)

\* C17: a combination with a record whose original text is not found on its
\* target line ends in the failed list, never in the succeeded list.
C17_MismatchFails ==
    (spc = "listed" /\ \E i \in DOMAIN combination : Mismatch(combination[i]))
    => listed = "failed_mutants"

\* C18: a record without a target file is skipped and does not fail the
\* combination when another record has one (only records with a file are
\* patched, and if those patches succeed the combination is in the succeeded
\* list); a combination none of whose records has a target file ends in the
\* failed list without a result.
C18_SkipUnlocated ==
    spc = "listed"
    => /\ (\A i \in DOMAIN combination : ~Located(combination[i]))
          => (listed = "failed_mutants" /\ sret = "None")
       /\ \A n \in DOMAIN patch_calls :
            \A i \in DOMAIN patch_calls[n].mutations : Located(patch_calls[n].mutations[i])
       /\ (/\ \E i \in DOMAIN combination : ~Located(combination[i])
           /\ \E i \in DOMAIN combination : Located(combination[i])
           /\ \A n \in DOMAIN patch_calls : patch_calls[n].success)
          => (listed = "successful_mutants" /\ sret = "result_info")

\* a combination in the succeeded list one of whose records had no file
C18_Witness ==
    /\ spc = "listed"
    /\ listed = "successful_mutants"
    /\ patch_calls # <<>>
    /\ \E i \in DOMAIN combination : ~Located(combination[i])

----------------------------------------------------------------------------
\* create_project_copy(original_dir, copy_dir)
\*
\* A file name is the list of its dot-separated parts (".git" is <<"", "git">>,
\* "out.tar.gz" is <<"out", "tar", "gz">>), a path the list of its names from
\* the root of the tree, a tree the set of its entries.

Entry(path, is_dir) == [path |-> path, is_dir |-> is_dir]

\* what a checkout can hold
SourceEntries ==
    { Entry(<< <<"", "git">> >>, TRUE),
      Entry(<< <<"", "git">>, <<"config">> >>, FALSE),
      Entry(<< <<"", "gitignore">> >>, FALSE),
      Entry(<< <<"mutants", "log">> >>, FALSE),
      Entry(<< <<"out", "tar", "gz">> >>, FALSE),
      Entry(<< <<"src">> >>, TRUE),
      Entry(<< <<"src">>, <<"A", "java">> >>, FALSE),
      Entry(<< <<"src">>, <<"data", "tar", "gz">> >>, FALSE),
      Entry(<< <<"src">>, <<"tar", "gz">> >>, FALSE) }

\* what a directory left behind at copy_dir can hold
StaleEntries ==
    { Entry(<< <<"src">> >>, TRUE),
      Entry(<< <<"src">>, <<"A", "java">> >>, FALSE),
      Entry(<< <<"src">>, <<"Old", "java">> >>, FALSE),
      Entry(<< <<"coverage", "xml">> >>, FALSE) }

\* every entry lies in a directory of the tree
IsTree(entries) ==
    \A e \in entries :
        Len(e.path) > 1 => Entry(SubSeq(e.path, 1, Len(e.path) - 1), TRUE) \in entries

Trees(entries) == { t \in SUBSET entries : IsTree(t) }

\* shutil.ignore_patterns('.git', 'mutants.log', '*.tar.gz')
IgnorePatterns ==
    { <<"", "git">>, <<"mutants", "log">>, <<"*", "tar", "gz">> }

\* fnmatch of a name against a pattern: "*" stands for any text, dots included
MatchesLiterally(name, pattern) == name = pattern
Matches(name, pattern) ==
    IF pattern # <<>> /\ pattern[1] = "*"
    THEN /\ Len(name) >= Len(pattern)
         /\ SubSeq(name, Len(name) - Len(pattern) + 2, Len(name)) = Tail(pattern)
    ELSE name = pattern

Ignored(name) == \E pattern \in IgnorePatterns : Matches(name, pattern)

\* shutil.copytree(original_dir, copy_dir, ignore=...): the ignore function is
\* asked in every directory, an ignored directory is not descended into
Copytree(entries) ==
    { e \in entries : \A i \in DOMAIN e.path : ~Ignored(e.path[i]) }

Absent == [exists |-> FALSE, entries |-> {}]
Present(entries) == [exists |-> TRUE, entries |-> entries]

CloneInit ==
    /\ original_dir \in Trees(SourceEntries)
    /\ copy_dir \in {Absent} \cup { Present(t) : t \in Trees(StaleEntries) }
    /\ copy_ret = "pending"
    /\ copy_before = [original |-> original_dir, copy |-> copy_dir]
    /\ GenIdle
    /\ PoolIdle
    /\ ArgsIdle
    /\ SingleIdle
    /\ MainIdle
    /\ ParserIdle
    /\ ReclaimIdle

\* lines 257-258: "if copy_dir.exists(): shutil.rmtree(copy_dir)", outside the
\* try block: an error of rmtree leaves the function as an exception
CloneRemove ==
    /\ copy_ret = "pending"
    /\ IF copy_dir.exists
       THEN \E removed \in BOOLEAN :
                IF removed
                THEN copy_dir' = Absent /\ copy_ret' = "copying"
                ELSE /\ copy_ret' = "raised"
                     /\ \E left \in Trees(copy_dir.entries) : copy_dir' = Present(left)
       ELSE copy_dir' = copy_dir /\ copy_ret' = "copying"
    /\ UNCHANGED <<original_dir, copy_before>>
    /\ UNCHANGED nonCloneVars

\* lines 260-269: copytree, True; any exception: False, with what was copied
\* until then left in place
CloneCopy ==
    /\ copy_ret = "copying"
    /\ \E copied \in BOOLEAN :
         IF copied
         THEN copy_dir' = Present(Copytree(original_dir)) /\ copy_ret' = "True"
         ELSE /\ copy_ret' = "False"
              /\ \E part \in Trees(Copytree(original_dir)) :
                    copy_dir' \in {Absent, Present(part)}
    /\ UNCHANGED <<original_dir, copy_before>>
    /\ UNCHANGED nonCloneVars

CloneNext ==
    \/ CloneRemove
    \/ CloneCopy

SpecClone == CloneInit /\ [][CloneNext]_vars

----------------------------------------------------------------------------
\* Properties of create_project_copy

\* names of version-control metadata, of the mutation log and of archives
IsExcludedName(name) ==
    \/ name = <<"", "git">>
    \/ name = <<"mutants", "log">>
    \/ Len(name) >= 3 /\ name[Len(name) - 1] = "tar" /\ name[Len(name)] = "gz"

\* the entry is excluded or lies inside an excluded directory
IsExcludedEntry(e) == \E i \in DOMAIN e.path : IsExcludedName(e.path[i])

\* C19: whatever copy_dir held before the call (nothing, an empty directory, a
\* stale tree), after a call that returned True it holds exactly the entries
\* of original_dir that are not excluded (.git, mutants.log, *.tar.gz), and
\* original_dir is unchanged.
C19_CleanSlate ==
    copy_ret = "True"
    => /\ copy_dir.exists
       /\ copy_dir.entries = { e \in copy_before.original : ~IsExcludedEntry(e) }
       /\ original_dir = copy_before.original

\* a successful copy over a stale tree that held a file the checkout has not,
\* of a checkout with .git, the log and an archive inside src
C19_Witness ==
    /\ copy_ret = "True"
    /\ copy_before.copy.exists
    /\ \E e \in copy_before.copy.entries : e \notin original_dir
    /\ Entry(<< <<"", "git">>, <<"config">> >>, FALSE) \in original_dir
    /\ Entry(<< <<"mutants", "log">> >>, FALSE) \in original_dir
    /\ Entry(<< <<"src">>, <<"data", "tar", "gz">> >>, FALSE) \in original_dir
    /\ Entry(<< <<"src">>, <<"A", "java">> >>, FALSE) \in copy_dir.entries
    /\ copy_dir.entries # original_dir

----------------------------------------------------------------------------
\* The scenario of four records, num_mutants = 3 and max_mutations = 2

\* the key the signature is built from
SignatureKey(r) == <<r.class_name, r.line_number, r.mutator>>

\* lists of four records with pairwise different (class, line, mutator)
ScenarioLists ==
    { s \in [1..4 -> RecordUniverse] :
        \A i, j \in 1..4 : i # j => SignatureKey(s[i]) # SignatureKey(s[j]) }

ScenarioSeeds == { 1, 13, 42 }

ScenarioInit ==
    /\ random_seed \in ScenarioSeeds
    /\ applier_key = [g \in Instances |-> OwnKey]
    /\ num_mutants = 3
    /\ max_mutations = 2
    /\ \E l \in ScenarioLists : all_mutations = [g \in Instances |-> l]
    /\ sorted_mutations = [g \in Instances |-> <<>>]
    /\ used_combinations = [g \in Instances |-> {}]
    /\ unique_mutants = [g \in Instances |-> <<>>]
    /\ mutant_num = [g \in Instances |-> 0]
    /\ gpc = [g \in Instances |-> "idle"]
    /\ calls = [g \in Instances |-> 0]
    /\ global_random \in GlobalStates
    /\ PoolIdle
    /\ ArgsIdle
    /\ SingleIdle
    /\ CloneIdle
    /\ MainIdle
    /\ ParserIdle
    /\ ReclaimIdle

ScenarioNext ==
    \/ \E g \in Instances : GenCall(g)
    \/ \E g \in Instances : GenIterate(g)
    \/ \E g \in Instances : GenReturn(g)
    \/ Reseed

SpecScenario == ScenarioInit /\ [][ScenarioNext]_vars

\* the call on the four records returned, its result holds pairwise different
\* signatures and one or two records per combination
ScenarioResultWellFormed(g) ==
    /\ \A i, j \in DOMAIN unique_mutants[g] :
            i # j => unique_mutants[g][i].signature # unique_mutants[g][j].signature
    /\ \A i \in DOMAIN unique_mutants[g] :
            unique_mutants[g][i].num_mutations \in {1, 2}

\* C20 as claimed: with max_mutations = 2, four records with pairwise different
\* (class, line, mutator) and num_mutants = 3 the generator returns exactly 3
\* combinations for any seed, with pairwise different signatures and 1 or 2
\* records each.
C20_ThreeCombinations ==
    \A g \in Instances :
        gpc[g] = "returned"
        => /\ Len(unique_mutants[g]) = 3
           /\ ScenarioResultWellFormed(g)

\* C20 as amended: the generator returns at most 3 and at least 2 combinations
\* with pairwise different signatures and 1 or 2 records each; it returns 3 for
\* the seeds 1 and 42.
C20_UpToThreeCombinations ==
    \A g \in Instances :
        gpc[g] = "returned"
        => /\ Len(unique_mutants[g]) \in {2, 3}
           /\ random_seed \in {1, 42} => Len(unique_mutants[g]) = 3
           /\ ScenarioResultWellFormed(g)

\* seed 42 returned three combinations, the third one found by the retry
C20_Witness ==
    \E g \in Instances :
        /\ gpc[g] = "returned"
        /\ random_seed = 42
        /\ Len(unique_mutants[g]) = 3
        /\ unique_mutants[g][3].signature
             # Attempt(sorted_mutations[g], random_seed + 3 * STRIDE, STEP, 2).signature

----------------------------------------------------------------------------
\* Signatures, generation seeds and repeated picks of generate_unique_mutants

\* the loop of instance g is about to run the body for index mutant_num[g]
AtIndex(g) ==
    /\ gpc[g] = "loop"
    /\ mutant_num[g] <= num_mutants
    /\ Len(sorted_mutations[g]) > 0

\* lines 45, 71: the seeds of the index the loop is at
MutantSeed(g) == random_seed + mutant_num[g] * STRIDE
AltSeed(g) == MutantSeed(g) + ALT_OFFSET

\* lines 51-66 and 70-84: what the body selects at the index the loop is at
FirstAttempt(g) == Attempt(sorted_mutations[g], MutantSeed(g), STEP, max_mutations)
AltAttempt(g) == Attempt(sorted_mutations[g], AltSeed(g), ALT_STEP, max_mutations)

\* the selections the call has made: the kept ones and those of the index the
\* loop is at (the alternate one is made when the first collides)
SelectionsMade(g) ==
    { [selected |-> unique_mutants[g][i].mutations,
       signature |-> unique_mutants[g][i].signature] : i \in DOMAIN unique_mutants[g] }
    \cup (IF AtIndex(g)
          THEN {FirstAttempt(g)}
               \cup (IF FirstAttempt(g).signature \in used_combinations[g]
                     THEN {AltAttempt(g)} ELSE {})
          ELSE {})

\* C21: a signature identifies the record set: any two selections of a call
\* with the same signature consist of the same records, original and mutated
\* code included.
C21_SignatureIdentifiesRecords ==
    \A g \in Instances :
        \A a, b \in SelectionsMade(g) :
            a.signature = b.signature => a.selected = b.selected

\* C22: the generation_seed of every returned combination reproduces it: the
\* count and the indices derived from that seed with the selection formula of
\* lines 48-59 give the records the combination holds, also when it was
\* accepted through the retry.
C22_SeedReproducesSelection ==
    \A g \in Instances :
        \A i \in DOMAIN unique_mutants[g] :
            Attempt(sorted_mutations[g], unique_mutants[g][i].generation_seed,
                    STEP, max_mutations).selected
                = unique_mutants[g][i].mutations

\* C23: repeated picks of one index collapse: no combination lists a record
\* twice, and its record count is its number of distinct records.
C23_RepeatedPicksCollapse ==
    \A g \in Instances :
        \A i \in DOMAIN unique_mutants[g] :
            LET c == unique_mutants[g][i]
            IN  /\ \A a, b \in DOMAIN c.mutations :
                        a # b => c.mutations[a] # c.mutations[b]
                /\ c.num_mutations = Cardinality(Range(c.mutations))

\* what one pass of the loop body keeps: the first attempt when its signature
\* is new, else the retry when its signature is new, else nothing
KeptAtIndex(g) ==
    IF FirstAttempt(g).signature \notin used_combinations[g]
    THEN <<FirstAttempt(g)>>
    ELSE IF AltAttempt(g).signature \notin used_combinations[g]
    THEN <<AltAttempt(g)>>
    ELSE <<>>

\* C29: every index makes at most two attempts: the first, and when its
\* signature is in the signature set one retry with the alternate seed
\* (mutant_seed + ALT_OFFSET) and the alternate step; when the retry's signature
\* is in the set too the index adds no combination; an accepted signature is in
\* the set when the next index starts.
C29_RetryOnceThenSkip ==
    [][\A g \in Instances :
          (AtIndex(g) /\ mutant_num'[g] = mutant_num[g] + 1)
          => LET kept == KeptAtIndex(g)
             IN  /\ unique_mutants'[g] =
                        unique_mutants[g]
                            \o [k \in 1..Len(kept) |-> MutantInfo(g, kept[k], MutantSeed(g))]
                 /\ used_combinations'[g] =
                        used_combinations[g] \cup { kept[k].signature : k \in 1..Len(kept) }
      ]_vars

\* seed 13: index 1 kept at once, index 2 kept through the retry, index 3
\* skipped after both attempts collided
C29_Witness ==
    \E g \in Instances :
        /\ gpc[g] = "returned"
        /\ random_seed = 13
        /\ num_mutants = 3
        /\ Len(unique_mutants[g]) = 2
        /\ unique_mutants[g][2].generation_seed = 13 + 2 * STRIDE
        /\ unique_mutants[g][2].mutations
             # Attempt(sorted_mutations[g], 13 + 2 * STRIDE, STEP, max_mutations).selected
        /\ Cardinality(used_combinations[g]) = 2

----------------------------------------------------------------------------
\* The order of the stages of process_single_mutant

\* the steps a task can take from one stage to the next
StageSteps ==
    { <<"dropped", "queued">>,
      <<"queued", "clone">>, <<"queued", "finally">>,
      <<"clone", "patch">>, <<"clone", "finally">>,
      <<"patch", "oracle">>, <<"patch", "finally">>,
      <<"oracle", "finally">>,
      <<"finally", "done">> }

\* C30: a task goes through clone, patch, oracle, result, reclaim in that
\* order: a file is patched only in the patch stage of a workspace whose clone
\* succeeded, the oracle runs only in the oracle stage, which is entered from a
\* patch stage that reported no failure, a result is built only together with
\* the oracle's output, and the cleanup of the finally block is the step that
\* ends the task, after which nothing of the task changes.
C30_StageOrder ==
    [][\A t \in DOMAIN task :
          /\ task'[t].stage # task[t].stage
                => <<task[t].stage, task'[t].stage>> \in StageSteps
          /\ task'[t].stage = "patch" /\ task[t].stage # "patch"
                => workspace'[t] = "present"
          /\ task'[t].patched # task[t].patched
                => /\ task[t].stage = "patch"
                   /\ workspace[t] = "present"
          /\ task'[t].stage = "oracle" /\ task[t].stage # "oracle"
                => task'[t].ret = "pending"
          /\ task'[t].coverage # task[t].coverage
                => /\ task[t].stage = "oracle"
                   /\ workspace[t] = "present"
          /\ task'[t].ret = "result_info" /\ task[t].ret # "result_info"
                => /\ task[t].stage = "oracle"
                   /\ task'[t].coverage # "none"
          /\ task'[t].ret = "None" /\ task[t].stage \in {"clone", "patch"}
                => /\ task'[t].stage = "finally"
                   /\ task'[t].coverage = "none"
          /\ (task'[t].kill # task[t].kill \/ task'[t].rmtree # task[t].rmtree)
                => /\ task[t].stage = "finally"
                   /\ task'[t].stage = "done"
          /\ task[t].stage = "finally"
                => task'[t].ret = task[t].ret
          /\ task[t].stage = "done"
                => /\ task'[t] = task[t]
                   /\ workspace'[t] = workspace[t]
      ]_vars

\* one task went through every stage and was reclaimed, another failed before
\* it located a file, never reached the oracle and was reclaimed too
C30_Witness ==
    \E t, u \in DOMAIN task :
        /\ task[t].stage = "done" /\ task[t].patched
        /\ task[t].coverage = "output" /\ task[t].ret = "result_info"
        /\ task[t].kill = "ok" /\ task[t].rmtree = "ok"
        /\ task[u].stage = "done" /\ ~task[u].located /\ ~task[u].patched
        /\ task[u].coverage = "none" /\ task[u].ret = "None"
        /\ task[u].rmtree = "ok"

----------------------------------------------------------------------------
\* main(): the loop over projects_to_process, and process_single_bug with the
\* outcome of each of its steps

\* the (project_id, bug_id) pairs parse_project_argument can return
Bugs == { <<"Math", "1">>, <<"Math", "2">>, <<"Lang", "1">> }

ProjectLists == UNION { [1..n -> Bugs] : n \in 1..MaxBugs }

\* what is known of one call of process_single_bug
NewRun(bug) ==
    [project_id |-> bug[1], bug_id |-> bug[2],
     log |-> "unread",         \* find_mutants_log: "unread" | "none" | "found"
     parsed |-> 0,             \* len(all_mutations)
     generated |-> 0,          \* len(mutations), the combinations generated
     pool_started |-> FALSE,   \* process_mutants_parallel was called
     workspaces |-> 0,         \* tasks that were given a mutant_dir
     successful |-> 0,         \* len(successful_mutants)
     failed |-> 0,             \* len(failed_mutants)
     written |-> FALSE,        \* _generate_json_results returned
     raised |-> FALSE,         \* the except clause of line 120 was entered
     returned |-> "pending"]   \* "pending" | "True" | "False"

\* records a log file can yield, combinations the generator can return
LogSizes == { 0, 1, 2 }

MainInit ==
    /\ projects_to_process \in ProjectLists
    /\ bug_index = 1
    /\ mpc = "loop"
    /\ bug_runs = <<>>
    /\ success_count = 0
    /\ merged = <<>>
    /\ GenIdle
    /\ PoolIdle
    /\ ArgsIdle
    /\ SingleIdle
    /\ CloneIdle
    /\ ParserIdle
    /\ ReclaimIdle

CurrentRun == bug_runs[Len(bug_runs)]

\* process_single_bug returns value; main lines 356-360 count it and go on
\* with the next pair
ReturnToMain(run, value) ==
    /\ bug_runs' = [bug_runs EXCEPT ![Len(bug_runs)] = [run EXCEPT !.returned = value]]
    /\ success_count' = IF value = "True" THEN success_count + 1 ELSE success_count
    /\ bug_index' = bug_index + 1
    /\ mpc' = "loop"
    /\ UNCHANGED <<projects_to_process, merged>>

\* process_single_bug goes on with its next step
GoOn(run, stage) ==
    /\ bug_runs' = [bug_runs EXCEPT ![Len(bug_runs)] = run]
    /\ mpc' = stage
    /\ UNCHANGED <<projects_to_process, bug_index, success_count, merged>>

\* main lines 350-356 and process_single_bug lines 54-66: merge the results of
\* the previous project when the project changes, call process_single_bug,
\* which cleans the directories of this bug
MainStartBug ==
    /\ mpc = "loop"
    /\ bug_index <= Len(projects_to_process)
    /\ merged' = IF /\ bug_index > 1
                    /\ projects_to_process[bug_index - 1][1]
                         # projects_to_process[bug_index][1]
                 THEN Append(merged, projects_to_process[bug_index - 1][1])
                 ELSE merged
    /\ bug_runs' = Append(bug_runs, NewRun(projects_to_process[bug_index]))
    /\ mpc' = "setup"
    /\ UNCHANGED <<projects_to_process, bug_index, success_count>>
    /\ UNCHANGED nonMainVars

\* lines 69-71: "if not self._setup_project(...): return False"
BugSetup ==
    /\ mpc = "setup"
    /\ \E ok \in BOOLEAN :
         IF ok THEN GoOn(CurrentRun, "source_dirs") ELSE ReturnToMain(CurrentRun, "False")
    /\ UNCHANGED nonMainVars

\* lines 73-79: "if not source_dirs: return False"
BugSourceDirs ==
    /\ mpc = "source_dirs"
    /\ \E found \in BOOLEAN :
         IF found THEN GoOn(CurrentRun, "select") ELSE ReturnToMain(CurrentRun, "False")
    /\ UNCHANGED nonMainVars

\* _select_mutations, lines 165-189: the number of combinations it returns for
\* a log that was found or not, that yields parsed records, of which the
\* generator makes count combinations; [] when there is no log or no record
SelectMutations(log, parsed, count) ==
    IF log = "none" THEN 0
    ELSE IF parsed = 0 THEN 0
    ELSE count

\* line 90: "if not mutations"
NotMutationsNever(mutations) == FALSE
NotMutations(mutations) == mutations = 0

\* lines 81-91
BugSelect ==
    /\ mpc = "select"
    /\ \E log \in {"none", "found"}, n \in LogSizes, count \in LogSizes \ {0} :
         /\ count <= n \/ n = 0
         /\ LET mutations == SelectMutations(log, n, count)
                run == [CurrentRun EXCEPT !.log = log,
                                          !.parsed = IF log = "none" THEN 0 ELSE n,
                                          !.generated = mutations]
            IN  IF NotMutations(mutations)
                THEN ReturnToMain(run, "False")
                ELSE GoOn(run, "pool")
    /\ UNCHANGED nonMainVars

\* lines 93-98: the pool runs every combination in a workspace of its own and
\* returns the succeeded and the failed ones
BugPool ==
    /\ mpc = "pool"
    /\ \E successful \in 0..CurrentRun.generated :
         GoOn([CurrentRun EXCEPT !.pool_started = TRUE,
                                 !.workspaces = CurrentRun.generated,
                                 !.successful = successful,
                                 !.failed = CurrentRun.generated - successful],
              "report")
    /\ UNCHANGED nonMainVars

\* line 100: "if successful_mutants"
HasSuccessfulAlways(successful) == TRUE
HasSuccessful(successful) == successful > 0

\* lines 100-118: write the JSON results and return True, or return False;
\* an exception of _generate_json_results (the file cannot be written) is
\* caught in line 120 and gives False
BugReport ==
    /\ mpc = "report"
    /\ IF HasSuccessful(CurrentRun.successful)
       THEN \E written \in BOOLEAN :
                IF written
                THEN ReturnToMain([CurrentRun EXCEPT !.written = TRUE], "True")
                ELSE ReturnToMain([CurrentRun EXCEPT !.raised = TRUE], "False")
       ELSE ReturnToMain(CurrentRun, "False")
    /\ UNCHANGED nonMainVars

\* lines 120-126: an exception of any earlier step is caught, the directories
\* of this bug are cleaned, False is returned
BugException ==
    /\ mpc \in {"setup", "source_dirs", "select", "pool"}
    /\ ReturnToMain([CurrentRun EXCEPT !.raised = TRUE], "False")
    /\ UNCHANGED nonMainVars

\* lines 362-371: the loop is over; merge the last project, print the counts
MainFinish ==
    /\ mpc = "loop"
    /\ bug_index > Len(projects_to_process)
    /\ merged' = Append(merged, projects_to_process[Len(projects_to_process)][1])
    /\ mpc' = "finished"
    /\ UNCHANGED <<projects_to_process, bug_index, bug_runs, success_count>>
    /\ UNCHANGED nonMainVars

MainNext ==
    \/ MainStartBug
    \/ BugSetup
    \/ BugSourceDirs
    \/ BugSelect
    \/ BugPool
    \/ BugReport
    \/ BugException
    \/ MainFinish

SpecMain == MainInit /\ [][MainNext]_vars

----------------------------------------------------------------------------
\* Properties of the top-level run

\* the calls of process_single_bug that returned
Returned == { i \in DOMAIN bug_runs : bug_runs[i].returned # "pending" }

\* the batch is never stopped: the calls made so far are those for the first
\* pairs of the list, and when main is through there is one for every pair
BatchGoesOn ==
    /\ Len(bug_runs) <= Len(projects_to_process)
    /\ \A i \in DOMAIN bug_runs :
            /\ bug_runs[i].project_id = projects_to_process[i][1]
            /\ bug_runs[i].bug_id = projects_to_process[i][2]
    /\ mpc = "finished"
       => /\ Len(bug_runs) = Len(projects_to_process)
          /\ Returned = DOMAIN bug_runs

\* C24 as claimed: no failure of a combination or of a bug stops the batch,
\* a bug is reported successful exactly when at least one of its combinations
\* succeeded, and the success count never exceeds the number of bugs processed.
C24_BatchNeverStops ==
    /\ BatchGoesOn
    /\ \A i \in Returned :
            bug_runs[i].returned = "True" <=> bug_runs[i].successful > 0
    /\ success_count <= Cardinality(Returned)

\* C24 as amended: no failure of a combination or of a bug stops the batch, a
\* bug is reported successful only when at least one of its combinations
\* succeeded, a bug with a succeeded combination is reported failed only when
\* writing its results raised, and the success count is the number of bugs
\* reported successful, never more than the number of bugs processed.
C24_BatchContinues ==
    /\ BatchGoesOn
    /\ \A i \in Returned :
            /\ bug_runs[i].returned = "True" => bug_runs[i].successful > 0
            /\ (bug_runs[i].returned = "False" /\ bug_runs[i].successful > 0)
                  => (bug_runs[i].raised /\ ~bug_runs[i].written)
    /\ success_count = Cardinality({ i \in Returned : bug_runs[i].returned = "True" })
    /\ success_count <= Cardinality(Returned)

\* main is through a list of two bugs: the first pipeline failed with an
\* exception, the second had a failed and a succeeded combination and is
\* counted as the one success
C24_Witness ==
    /\ mpc = "finished"
    /\ Len(bug_runs) = 2
    /\ bug_runs[1].raised /\ bug_runs[1].returned = "False"
    /\ bug_runs[2].failed >= 1 /\ bug_runs[2].successful >= 1
    /\ bug_runs[2].returned = "True"
    /\ success_count = 1

\* C25: when no mutation log is found, or the log yields no record, the
\* pipeline of that bug returns False with no combination generated, no pool
\* started and no workspace created, no exception is raised, and main goes on
\* to the next bug.
C25_NoLogAborts ==
    /\ \A i \in DOMAIN bug_runs :
            (bug_runs[i].log = "none" \/ (bug_runs[i].log = "found" /\ bug_runs[i].parsed = 0))
            => /\ bug_runs[i].returned = "False"
               /\ bug_runs[i].generated = 0
               /\ ~bug_runs[i].pool_started
               /\ bug_runs[i].workspaces = 0
               /\ bug_runs[i].successful = 0 /\ bug_runs[i].failed = 0
               /\ ~bug_runs[i].raised
               /\ mpc \in {"finished", "loop"} \/ i < Len(bug_runs)
    /\ BatchGoesOn

\* the first bug had no log, the second had one and was processed to success
C25_Witness ==
    /\ mpc = "finished"
    /\ Len(bug_runs) = 2
    /\ bug_runs[1].log = "none" /\ bug_runs[1].returned = "False"
    /\ bug_runs[2].log = "found" /\ bug_runs[2].pool_started
    /\ bug_runs[2].returned = "True"

----------------------------------------------------------------------------
\* MutationParser: parse_mutant_line and parse_all_mutations.
\*
\* A log line is the sequence of its tokens: words, ":" between the fields,
\* "@" inside the location field, " " and "|==>" inside the code clause,
\* "\n" at its end.

\* what parse_mutant_line returns for a line it rejects
None == [none |-> TRUE]

NoOp == <<"<NO-OP>">>

\* the fields of a well-formed line: id, mutator, two type signatures, the
\* location (a class key, with or without "@method"), the line number, a
\* position, and the two sides of the code clause
LogFields ==
    { [id |-> "1", mutator |-> "LVR", location |-> <<"pkg.Dist">>, line |-> "47",
       original |-> <<"false">>, mutated |-> <<"true">>],
      [id |-> "30", mutator |-> "LVR", location |-> <<"pkg.Dist", "@", "m(int)">>,
       line |-> "119", original |-> <<"0.0">>, mutated |-> <<"1.0">>],
      [id |-> "30", mutator |-> "LVR", location |-> <<"pkg.Dist", "@", "m(int)">>,
       line |-> "119", original |-> <<"0.0">>, mutated |-> <<"-1.0">>],
      [id |-> "2", mutator |-> "COR", location |-> <<"pkg.Test", "@", "t">>,
       line |-> "10", original |-> <<"x", " ", ">", " ", "0">>,
       mutated |-> <<"x", " ", ">=", " ", "0">>],
      [id |-> "3", mutator |-> "STD", location |-> <<"pkg.Test", "@", "t">>,
       line |-> "10", original |-> <<"call()">>, mutated |-> NoOp] }

\* the line of the log that holds the fields
FormatLine(f) ==
    <<f.id, ":", f.mutator, ":", "sigA", ":", "sigB", ":">> \o f.location
        \o <<":", f.line, ":", "2230", ":">> \o f.original
        \o <<" ", "|==>", " ">> \o f.mutated \o <<"\n">>

\* an empty line, a comment, a line with too few fields, a line with all the
\* fields and no "|==>" clause
MalformedLines ==
    { <<"\n">>,
      <<"#", " ", "comment", "\n">>,
      <<"incomplete", ":", "line", "\n">>,
      <<"1", ":", "LVR", ":", "sigA", ":", "sigB", ":", "pkg.Dist", ":", "47", ":",
        "2230", ":", "false", "\n">> }

LogLines == { FormatLine(f) : f \in LogFields } \cup MalformedLines

LogFiles == UNION { [1..n -> LogLines] : n \in 0..MaxLines }

\* int() of the line-number field
ToInt(s) == CASE s = "10" -> 10 [] s = "47" -> 47 [] s = "119" -> 119

\* s.split(sep, maxsplit)
RECURSIVE Split(_, _, _)
Split(s, sep, maxsplit) ==
    LET k == Find(s, <<sep>>)
    IN  IF maxsplit = 0 \/ k = 0 THEN <<s>>
        ELSE <<SubSeq(s, 1, k - 1)>> \o Split(SubSeq(s, k + 1, Len(s)), sep, maxsplit - 1)

\* the class key of the location field: the text before "@"
ClassKey(location) == Split(location, "@", 1)[1]

\* the mutated code of the record: the no-op marker becomes the original code
\* in a block comment
MutatedCodeLiteral(original, mutated) == mutated
MutatedCode(original, mutated) ==
    IF mutated = NoOp THEN <<"/*">> \o original \o <<"*/">> ELSE mutated

ParseMutantLine(raw) ==
    LET line == Strip(raw)
    IN  IF line = <<>> THEN None
        ELSE IF line[1] = "#" THEN None
        ELSE LET parts == Split(line, ":", 7)
             IN  IF Len(parts) < 8 THEN None
                 ELSE LET sides == Split(parts[8], "|==>", 1)
                      IN  IF Len(sides) < 2 THEN None
                          ELSE [mutant_id |-> parts[1][1],
                                mutator |-> parts[2][1],
                                class_name |-> ClassKey(parts[5]),
                                line_number |-> ToInt(parts[6][1]),
                                original_code |-> Strip(sides[1]),
                                mutated_code |-> MutatedCode(Strip(sides[1]), Strip(sides[2]))]

\* what two records must agree on to be duplicates: every field
DedupKeyLineMutator(record) == <<record.line_number, record.mutator>>
DedupKey(record) == record

\* the duplicate filter a call starts with
SeenCarriedOver(seen) == seen
SeenAtCallStart(seen) == {}

Calls == {1, 2}

ParserInit ==
    /\ log_file \in LogFiles
    /\ parse_pc = [c \in Calls |-> "idle"]
    /\ parse_pos = [c \in Calls |-> 0]
    /\ parse_seen = {}
    /\ parse_out = [c \in Calls |-> <<>>]
    /\ line_out = [c \in Calls |-> <<>>]
    /\ GenIdle
    /\ PoolIdle
    /\ ArgsIdle
    /\ SingleIdle
    /\ CloneIdle
    /\ MainIdle
    /\ ReclaimIdle

\* parse_all_mutations(log_file) is called; the second call is made when the
\* first returned
ParseCall(c) ==
    /\ parse_pc[c] = "idle"
    /\ c = 2 => parse_pc[1] = "returned"
    /\ parse_pc' = [parse_pc EXCEPT ![c] = "reading"]
    /\ parse_seen' = SeenAtCallStart(parse_seen)
    /\ UNCHANGED <<log_file, parse_pos, parse_out, line_out>>
    /\ UNCHANGED nonParseVars

\* one line of the file: parse it, keep the record unless it is a duplicate
ParseReadLine(c) ==
    /\ parse_pc[c] = "reading"
    /\ parse_pos[c] < Len(log_file)
    /\ LET record == ParseMutantLine(log_file[parse_pos[c] + 1])
       IN  /\ line_out' = [line_out EXCEPT ![c] = Append(@, record)]
           /\ IF record # None /\ DedupKey(record) \notin parse_seen
              THEN /\ parse_seen' = parse_seen \cup {DedupKey(record)}
                   /\ parse_out' = [parse_out EXCEPT ![c] = Append(@, record)]
              ELSE UNCHANGED <<parse_seen, parse_out>>
    /\ parse_pos' = [parse_pos EXCEPT ![c] = @ + 1]
    /\ UNCHANGED <<log_file, parse_pc>>
    /\ UNCHANGED nonParseVars

\* the file is read: return the list
ParseReturn(c) ==
    /\ parse_pc[c] = "reading"
    /\ parse_pos[c] = Len(log_file)
    /\ parse_pc' = [parse_pc EXCEPT ![c] = "returned"]
    /\ UNCHANGED <<log_file, parse_pos, parse_seen, parse_out, line_out>>
    /\ UNCHANGED nonParseVars

ParserNext ==
    \/ \E c \in Calls : ParseCall(c)
    \/ \E c \in Calls : ParseReadLine(c)
    \/ \E c \in Calls : ParseReturn(c)

SpecParser == ParserInit /\ [][ParserNext]_vars

----------------------------------------------------------------------------
\* Properties of the parser

\* the position of the first x in s
FirstIndex(s, x) ==
    CHOOSE k \in DOMAIN s : s[k] = x /\ \A j \in 1..(k - 1) : s[j] # x

C27_ParseIdempotent ==
    (parse_pc[1] = "returned" /\ parse_pc[2] = "returned")
    => /\ Len(parse_out[1]) = Len(parse_out[2])
       /\ \A i \in DOMAIN parse_out[1] : parse_out[1][i] = parse_out[2][i]

\* both calls returned two records or more for a log with a duplicate line
C27_Witness ==
    /\ parse_pc[1] = "returned" /\ parse_pc[2] = "returned"
    /\ Len(parse_out[2]) >= 2
    /\ Len(parse_out[2]) < Len(log_file)
    /\ \E i, j \in DOMAIN log_file : i # j /\ log_file[i] = log_file[j]
                                     /\ line_out[2][i] # None

----------------------------------------------------------------------------
\* The stripped match, the clean checkout and the oracle on a patched workspace

\* the call is apply_mutation_to_file on an in-range line in which
\* original_code does not occur while its stripped form occurs in the stripped
\* line
StrippedMatchOnly(c) ==
    /\ c.function = "apply_mutation_to_file"
    /\ InRange(c.before, c.mutations[1].line_number)
    /\ ~Contains(c.before[c.mutations[1].line_number], c.mutations[1].original_code)
    /\ Contains(Strip(c.before[c.mutations[1].line_number]),
                Strip(c.mutations[1].original_code))

\* new is old with mutated in place of the first occurrence of original, the
\* text before and after that occurrence kept
FirstOccurrenceReplaced(old, new, original, mutated) ==
    \E k \in 1..(Len(old) + 1) :
        /\ StartsWithAt(old, original, k)
        /\ \A j \in 1..(k - 1) : ~StartsWithAt(old, original, j)
        /\ new = SubSeq(old, 1, k - 1) \o mutated
                 \o SubSeq(old, k + Len(original), Len(old))

\* C33: when original_code is not in the target line but its stripped form is
\* in the stripped line, apply_mutation_to_file returns success and the line
\* becomes the raw line with mutated_code in place of the first occurrence of
\* the stripped original, its text before and after that occurrence (the
\* indentation, the line ending) and every other line unchanged.
C33_StrippedMatchSplices ==
    \A n \in DOMAIN patch_calls :
        LET c == patch_calls[n]
            m == c.mutations[1]
        IN  StrippedMatchOnly(c)
            => /\ c.success
               /\ Len(c.after) = Len(c.before)
               /\ FirstOccurrenceReplaced(c.before[m.line_number],
                                          c.after[m.line_number],
                                          Strip(m.original_code), m.mutated_code)
               /\ \A i \in DOMAIN c.before :
                    i # m.line_number => c.after[i] = c.before[i]

\* a stripped match on an indented line in which the stripped original occurs
\* twice: only the first occurrence is replaced
C33_Witness ==
    \E n \in DOMAIN patch_calls :
        /\ StrippedMatchOnly(patch_calls[n])
        /\ patch_calls[n].success
        /\ patch_calls[n].before[1] = <<" ", "a", "+", "a", "\n">>
        /\ patch_calls[n].after[1] = <<" ", "x", "+", "a", "\n">>

\* C34: no step of a task changes the files of the clean checkout or the
\* combination's list of mutation records, and every patch call made so far
\* wrote a file under the task's own workspace copy.
C34_CheckoutUntouched ==
    [][/\ work_dir_files' = work_dir_files
       /\ combination' = combination
       /\ \A n \in DOMAIN patch_calls' : patch_calls'[n].root = "mutant_dir"]_vars

\* a finished task that patched two files of its workspace: the workspace
\* differs from the checkout in both, the checkout holds what it held
C34_Witness ==
    /\ spc = "listed"
    /\ Len(patch_calls) = 2
    /\ \A n \in DOMAIN patch_calls : patch_calls[n].success
    /\ work_dir_files = Checkout
    /\ \A f \in DOMAIN Checkout : source_files[f] # work_dir_files[f]

\* C36: the oracle is invoked, and a result is reported, only for a workspace
\* in which at least one mutation of the combination changed a file.
C36_OracleOnlyOnPatchedWorkspace ==
    /\ spc = "oracle" => source_files # work_dir_files
    /\ sret = "result_info" => source_files # work_dir_files

----------------------------------------------------------------------------
\* One task from its oracle to its return: the timeouts of the two oracle
\* commands, _kill_processes_for_path and the finally block

MaxProcs == 2       \* processes that can reference the workspace
RPids == 1..MaxProcs

\* one entry of the record of what the task did
Event(op, pid, result) == [op |-> op, pid |-> pid, result |-> result, caller |-> caller]

\* what os.kill(pid, sig) does for a process in the given state
KillResult(state) ==
    IF state = "alive" THEN "ok"
    ELSE IF state = "protected" THEN "PermissionError"
    ELSE "ProcessLookupError"

\* "pgrep -f mutant_dir": the processes that exist, in ascending order
RECURSIVE Pgrep(_)
Pgrep(pid) ==
    IF pid > MaxProcs THEN <<>>
    ELSE IF procs[pid] \in {"alive", "protected"} THEN <<pid>> \o Pgrep(pid + 1)
    ELSE Pgrep(pid + 1)

\* processes an oracle command starts under the workspace and leaves behind
Spawned(S) == [p \in RPids |-> IF p \in S THEN "alive" ELSE procs[p]]

ReclaimInit ==
    /\ rpc = "coverage"
    /\ procs \in [RPids -> {"none", "protected"}]
    /\ pids = <<>>
    /\ kpos = 0
    /\ events = <<>>
    /\ caller = "none"
    /\ GenIdle
    /\ PoolIdle
    /\ ArgsIdle
    /\ SingleIdle
    /\ CloneIdle
    /\ MainIdle
    /\ ParserIdle

\* coverage_runner.py 162-168, 191-198: "defects4j coverage -r"; its timeout
\* is caught by run_coverage_analysis, which calls _kill_processes_for_path
OracleCoverage ==
    /\ rpc = "coverage"
    /\ \E S \in SUBSET { p \in RPids : procs[p] = "none" } : procs' = Spawned(S)
    /\ \E timed_out \in BOOLEAN :
         IF timed_out
         THEN /\ events' = Append(events, Event("TimeoutExpired", 0, "coverage"))
              /\ rpc' = "find"
              /\ caller' = "coverage_runner"
         ELSE /\ rpc' = "test"
              /\ UNCHANGED <<events, caller>>
    /\ UNCHANGED <<pids, kpos>>
    /\ UNCHANGED nonReclaimVars

\* coverage_runner.py 16-51: "defects4j test"; run_defects4j_test catches its
\* own timeout and returns
OracleTest ==
    /\ rpc = "test"
    /\ \E S \in SUBSET { p \in RPids : procs[p] = "none" } : procs' = Spawned(S)
    /\ \E timed_out \in BOOLEAN :
         events' = IF timed_out
                   THEN Append(events, Event("TimeoutExpired", 0, "test"))
                   ELSE events
    /\ rpc' = "finally"
    /\ UNCHANGED <<pids, kpos, caller>>
    /\ UNCHANGED nonReclaimVars

\* worker_pool.py 132: '"temp_mutant_" in str(mutant_dir)', which holds of
\* every directory the pool names (line 215)
IsTempDirNever == FALSE
IsTempDir == TRUE

\* worker_pool.py 130-137: the finally block starts the cleanup
TaskCleanup ==
    /\ rpc = "finally"
    /\ IF IsTempDir
       THEN rpc' = "find" /\ caller' = "finally"
       ELSE rpc' = "return" /\ caller' = caller
    /\ UNCHANGED <<procs, pids, kpos, events>>
    /\ UNCHANGED nonReclaimVars

\* where control goes when _kill_processes_for_path is over, by return or by
\* an exception that its caller swallows
AfterKill == IF caller = "coverage_runner" THEN "finally" ELSE "rmtree"

\* worker_pool.py 150-157: pgrep; no match returns at once, and a pgrep that
\* cannot be run raises into the caller
KillFind ==
    /\ rpc = "find"
    /\ \E ran \in BOOLEAN :
         IF ~ran
         THEN /\ events' = Append(events, Event("pgrep", 0, "raised"))
              /\ pids' = <<>>
              /\ rpc' = AfterKill
              /\ kpos' = 0
         ELSE /\ pids' = Pgrep(1)
              /\ events' = Append(events, Event("pgrep", 0,
                              IF pids' = <<>> THEN "none" ELSE "found"))
              /\ rpc' = IF pids' = <<>> THEN AfterKill ELSE "term"
              /\ kpos' = IF pids' = <<>> THEN 0 ELSE 1
    /\ UNCHANGED <<procs, caller>>
    /\ UNCHANGED nonReclaimVars

\* worker_pool.py 159-166: what the SIGTERM loop does after os.kill raised
\* ProcessLookupError or PermissionError
OnSignalErrorRaise(result) == "raise"
OnSignalError(result) == "continue"

\* worker_pool.py 159-166: one iteration of the SIGTERM loop
KillTerm ==
    /\ rpc = "term"
    /\ LET pid == pids[kpos]
           result == KillResult(procs[pid])
       IN  /\ events' = Append(events, Event("SIGTERM", pid, result))
           /\ IF result # "ok" /\ OnSignalError(result) = "raise"
              THEN rpc' = AfterKill /\ kpos' = 0
              ELSE IF kpos = Len(pids)
              THEN rpc' = "sleep" /\ kpos' = 0
              ELSE rpc' = "term" /\ kpos' = kpos + 1
    /\ UNCHANGED <<procs, pids, caller>>
    /\ UNCHANGED nonReclaimVars

\* worker_pool.py 168-169: time.sleep(timeout)
KillSleep ==
    /\ rpc = "sleep"
    /\ events' = Append(events, Event("sleep", 0, "ok"))
    /\ rpc' = "probe"
    /\ kpos' = 1
    /\ UNCHANGED <<procs, pids, caller>>
    /\ UNCHANGED nonReclaimVars

\* the loop over pids goes to its next pid, or the function returns
NextPid == IF kpos = Len(pids) THEN AfterKill ELSE "probe"

\* worker_pool.py 172-177: os.kill(pid, 0); any OSError skips the pid
KillProbe ==
    /\ rpc = "probe"
    /\ LET pid == pids[kpos]
           result == KillResult(procs[pid])
       IN  /\ events' = Append(events, Event("probe", pid, result))
           /\ IF result = "ok"
              THEN rpc' = "sigkill" /\ kpos' = kpos
              ELSE rpc' = NextPid /\ kpos' = IF kpos = Len(pids) THEN 0 ELSE kpos + 1
    /\ UNCHANGED <<procs, pids, caller>>
    /\ UNCHANGED nonReclaimVars

\* worker_pool.py 178-182: os.kill(pid, SIGKILL), any exception passed over
KillForce ==
    /\ rpc = "sigkill"
    /\ LET pid == pids[kpos]
           result == KillResult(procs[pid])
       IN  /\ events' = Append(events, Event("SIGKILL", pid, result))
           /\ procs' = IF result = "ok" THEN [procs EXCEPT ![pid] = "exited"] ELSE procs
    /\ rpc' = NextPid
    /\ kpos' = IF kpos = Len(pids) THEN 0 ELSE kpos + 1
    /\ UNCHANGED <<pids, caller>>
    /\ UNCHANGED nonReclaimVars

\* worker_pool.py 138-141: shutil.rmtree(mutant_dir), its exception passed over
TaskRmtree ==
    /\ rpc = "rmtree"
    /\ \E result \in {"ok", "raised"} :
         events' = Append(events, Event("rmtree", 0, result))
    /\ rpc' = "return"
    /\ UNCHANGED <<procs, pids, kpos, caller>>
    /\ UNCHANGED nonReclaimVars

\* the task hands its outcome to the pool
TaskReturn ==
    /\ rpc = "return"
    /\ events' = Append(events, Event("return", 0, "ok"))
    /\ rpc' = "returned"
    /\ UNCHANGED <<procs, pids, kpos, caller>>
    /\ UNCHANGED nonReclaimVars

\* a process that references the workspace ends, by itself or on a signal
ProcExit(p) ==
    /\ rpc # "returned"
    /\ procs[p] \in {"alive", "protected"}
    /\ procs' = [procs EXCEPT ![p] = "exited"]
    /\ UNCHANGED <<rpc, pids, kpos, events, caller>>
    /\ UNCHANGED nonReclaimVars

ReclaimNext ==
    \/ OracleCoverage
    \/ OracleTest
    \/ TaskCleanup
    \/ KillFind
    \/ KillTerm
    \/ KillSleep
    \/ KillProbe
    \/ KillForce
    \/ TaskRmtree
    \/ TaskReturn
    \/ \E p \in RPids : ProcExit(p)

SpecReclaim == ReclaimInit /\ [][ReclaimNext]_vars

\* what the finally block of the task did, in order
Cleanup == SelectSeq(events, LAMBDA e : e.caller = "finally")

\* the steps of the reclaim in the order claimed; the probe of a pid and its
\* SIGKILL belong to the same step
ReclaimSteps == <<{"pgrep"}, {"SIGTERM"}, {"sleep"}, {"probe", "SIGKILL"},
                  {"rmtree"}, {"return"}>>
StepOf(op) == CHOOSE n \in DOMAIN ReclaimSteps : op \in ReclaimSteps[n]

\* the finally block did op on pid
Did(op, pid) == \E i \in DOMAIN Cleanup : Cleanup[i].op = op /\ Cleanup[i].pid = pid

\* C31: the reclaim of the finally block goes in the order pgrep, SIGTERM to
\* each process found, the grace period, SIGKILL only to found processes that
\* a probe just showed alive, and only then the removal of the tree; once
\* processes were found, a process that exited or cannot be signalled keeps
\* none of the others from its SIGTERM, its probe and, if alive, its SIGKILL,
\* and the removal is attempted before the task returns.
C31_ReclaimOrder ==
    /\ \A i, j \in DOMAIN Cleanup :
            i < j => StepOf(Cleanup[i].op) <= StepOf(Cleanup[j].op)
    /\ Did("sleep", 0) => \A k \in DOMAIN pids : Did("SIGTERM", pids[k])
    /\ \A i \in DOMAIN Cleanup :
            Cleanup[i].op = "SIGKILL"
            => /\ i > 1
               /\ Cleanup[i - 1] = [Cleanup[i] EXCEPT !.op = "probe", !.result = "ok"]
               /\ \E k \in DOMAIN pids : pids[k] = Cleanup[i].pid
    /\ Did("rmtree", 0)
       => \A k \in DOMAIN pids :
            /\ Did("SIGTERM", pids[k])
            /\ Did("probe", pids[k])
            /\ \A i \in DOMAIN Cleanup :
                 Cleanup[i] = [op |-> "probe", pid |-> pids[k], result |-> "ok",
                               caller |-> "finally"]
                 => Did("SIGKILL", pids[k])
    /\ rpc = "returned" => Did("rmtree", 0)

\* two processes were found; the first had exited when SIGTERM was sent, the
\* second took SIGTERM, was still alive after the grace period and was killed;
\* then the tree was removed and the task returned
C31_Witness ==
    /\ rpc = "returned"
    /\ Len(pids) = 2
    /\ \E i \in DOMAIN Cleanup :
         Cleanup[i] = [op |-> "SIGTERM", pid |-> pids[1],
                       result |-> "ProcessLookupError", caller |-> "finally"]
    /\ \E i \in DOMAIN Cleanup :
         Cleanup[i] = [op |-> "SIGKILL", pid |-> pids[2], result |-> "ok",
                       caller |-> "finally"]
    /\ \E i \in DOMAIN Cleanup : Cleanup[i].op = "rmtree" /\ Cleanup[i].result = "ok"

\* C32: after a timeout of an oracle command of the task, the search for and
\* termination of the processes that reference the task's workspace is run
\* before the task returns its outcome.
C32_TimeoutCleanedUp ==
    \A i, j \in DOMAIN events :
        (events[i].op = "TimeoutExpired" /\ events[j].op = "return")
        => \E k \in (i + 1)..(j - 1) : events[k].op = "pgrep"

\* the test command timed out, which the oracle runner passes over; the
\* finally block found a process left behind and killed it before the return
C32_Witness ==
    /\ rpc = "returned"
    /\ \E i \in DOMAIN events :
         events[i].op = "TimeoutExpired" /\ events[i].result = "test"
    /\ \E i \in DOMAIN Cleanup : Cleanup[i].op = "pgrep" /\ Cleanup[i].result = "found"
    /\ \E i \in DOMAIN Cleanup : Cleanup[i].op = "SIGKILL" /\ Cleanup[i].result = "ok"

\* the combinations that passed the identity validation of lines 202-208
Validated == { t \in DOMAIN mutants : IsValid(mutants[t]) }

\* C35: when process_mutants_parallel has returned, the results in
\* successful_mutants and the ids in failed_mutants together number the
\* validated combinations, every validated combination is in exactly one of
\* the two lists and no other combination is in either.
C35_EveryValidatedOnce ==
    ppc = "returned"
    => /\ Len(successful_mutants) + Len(failed_mutants) = Cardinality(Validated)
       /\ \A t \in Validated : Succeeded(t) # Failed(t)
       /\ \A t \in DOMAIN mutants \ Validated : ~Succeeded(t) /\ ~Failed(t)

\* a returned run of two validated combinations, one in each list
C35_Witness ==
    /\ ppc = "returned"
    /\ Cardinality(Validated) = 2
    /\ Len(successful_mutants) = 1
    /\ Len(failed_mutants) = 1

\* the two lists hold the same records the same number of times
SameMultiset(a, b) ==
    /\ Len(a) = Len(b)
    /\ \A n \in DOMAIN a :
         Cardinality({ i \in DOMAIN a : a[i] = a[n] })
            = Cardinality({ i \in DOMAIN b : b[i] = a[n] })

\* C37: no two combinations returned by one call hold the same multiset of
\* records; two records of one class and line with different mutators are not
\* returned twice as the same pair in two orders.
C37_NoRepeatedRecordSet ==
    \A g \in Instances :
        \A i, j \in DOMAIN unique_mutants[g] :
            i < j => ~SameMultiset(unique_mutants[g][i].mutations,
                                   unique_mutants[g][j].mutations)

----------------------------------------------------------------------------
\* Two generators built with the same seed and different project and bug keys,
\* called with the same records and parameters

KeysInit ==
    /\ random_seed \in Seeds
    /\ \E key \in OtherKeys : applier_key = (1 :> OwnKey) @@ (2 :> key)
    /\ num_mutants \in 0..MaxNum
    /\ max_mutations \in 1..MaxPer
    /\ \E l \in RecordLists : all_mutations = [g \in Instances |-> l]
    /\ sorted_mutations = [g \in Instances |-> <<>>]
    /\ used_combinations = [g \in Instances |-> {}]
    /\ unique_mutants = [g \in Instances |-> <<>>]
    /\ mutant_num = [g \in Instances |-> 0]
    /\ gpc = [g \in Instances |-> "idle"]
    /\ calls = [g \in Instances |-> 0]
    /\ global_random \in GlobalStates
    /\ PoolIdle
    /\ ArgsIdle
    /\ SingleIdle
    /\ CloneIdle
    /\ MainIdle
    /\ ParserIdle
    /\ ReclaimIdle

SpecKeys == KeysInit /\ [][GenNext]_vars

\* a combination without its project and bug tags
Untagged(info) == [f \in DOMAIN info \ {"project_id", "bug_id"} |-> info[f]]

====
